---- MODULE Spec2Model ----
(***************************************************************************)
(* A model of the news aggregation-and-classification pipeline:            *)
(*   - NewsDigest (src/news_digest.py): the ordered collection of items,   *)
(*     add_news, get_news_by_category, get_top_news;                       *)
(*   - NewsManager (src/news_manager.py): filter_news, auto_categorize,    *)
(*     determine_importance, driven by a configuration document;           *)
(*   - NewsAggregator (src/news_crawler.py): categorize_news and           *)
(*     determine_importance with their hard-coded keyword tables.          *)
(*   - the renderers of the Digest: generate_digest, export_json,          *)
(*     prepare_html_data;                                                  *)
(*   - the manager's construction from a configuration file and its run:   *)
(*     fetch_news over the configured sources, process_news_list,          *)
(*     generate_outputs;                                                   *)
(*   - the comment analyzers (src/xueqiu_simple_analyzer.py,               *)
(*     src/xueqiu_demo.py): clean_text and analyze_sentiment;              *)
(*   - NewsAggregator.aggregate_news over its hard-coded sources;          *)
(*   - XueqiuCommentAnalyzer (src/xueqiu_comment_analyzer.py):             *)
(*     analyze_comments_with_ai, extract_keywords, run_analysis.           *)
(*                                                                         *)
(* A text (a Python str) is a sequence of characters.  An ASCII character  *)
(* is the one-character string itself; a CJK character is written "uXXXX", *)
(* XXXX being its Unicode code point in hexadecimal, so that len(),        *)
(* containment and lower() are computed character by character as Python   *)
(* computes them.                                                          *)
(***************************************************************************)
EXTENDS Integers, Sequences, FiniteSets, TLC

VARIABLES
    config,      \* NewsManager.config: the loaded configuration document
    news_items,  \* NewsDigest.news_items: the ordered item sequence
    op,          \* the name of the last operation called ("init" before any)
    arg,         \* the arguments of the last operation (a record)
    ret,         \* what the last operation returned (<<>> when nothing)
    run          \* the manager's position: in construction, in run(), ended

vars == <<config, news_items, op, arg, ret, run>>

----------------------------------------------------------------------------
(* Bounds of the model *)

\* the longest Digest explored
MaxItems == 4
\* the largest limit passed to get_top_news (larger than MaxItems)
MaxLimit == 5
\* the most categories of a configuration's `categories` section
MaxConfigCategories == 2

----------------------------------------------------------------------------
(* Python built-ins on texts and lists *)

Min(a, b) == IF a <= b THEN a ELSE b
Max(a, b) == IF a >= b THEN a ELSE b

\* the text made of n copies of the character c
Rep(c, n) == [i \in 1..n |-> c]

\* the set of elements of a sequence
Range(s) == {s[i] : i \in 1..Len(s)}

\* str.lower() character by character: ASCII upper-case letters map to their
\* lower-case letter, every other character (digits, CJK, space) is unchanged
LowerChar(c) ==
    CASE c = "A" -> "a" [] c = "B" -> "b" [] c = "C" -> "c" [] c = "D" -> "d"
      [] c = "E" -> "e" [] c = "F" -> "f" [] c = "G" -> "g" [] c = "H" -> "h"
      [] c = "I" -> "i" [] c = "J" -> "j" [] c = "K" -> "k" [] c = "L" -> "l"
      [] c = "M" -> "m" [] c = "N" -> "n" [] c = "O" -> "o" [] c = "P" -> "p"
      [] c = "Q" -> "q" [] c = "R" -> "r" [] c = "S" -> "s" [] c = "T" -> "t"
      [] c = "U" -> "u" [] c = "V" -> "v" [] c = "W" -> "w" [] c = "X" -> "x"
      [] c = "Y" -> "y" [] c = "Z" -> "z" [] OTHER -> c

Lower(t) == [i \in 1..Len(t) |-> LowerChar(t[i])]

\* Python's `k in t` on two texts: k occurs in t as a contiguous substring
\* (the empty text occurs in every text)
Contains(t, k) ==
    \E i \in 0..(Len(t) - Len(k)) : \A j \in 1..Len(k) : t[i + j] = k[j]

\* dict.get(key, default) on an optional entry: <<>> when the key is absent,
\* <<v>> when it is present with value v
Get(entry, default) == IF entry = <<>> THEN default ELSE entry[1]

\* Python's s[:limit]
SliceTo(s, limit) ==
    IF limit >= 0 THEN SubSeq(s, 1, Min(limit, Len(s)))
                  ELSE SubSeq(s, 1, Max(0, Len(s) + limit))

----------------------------------------------------------------------------
(* src/news_digest.py *)

\* the members of the enumeration, in definition order
NewsCategoryOrder ==
    <<"POLITICS", "ECONOMY", "SOCIETY", "TECHNOLOGY", "CULTURE",
      "SPORTS", "INTERNATIONAL", "HEALTH", "EDUCATION", "ENVIRONMENT">>

NewsCategory == Range(NewsCategoryOrder)

\* NewsCategory.<member>.value: the external label of a member
CategoryValue(c) ==
    CASE c = "POLITICS"      -> <<"u653f", "u6cbb">>
      [] c = "ECONOMY"       -> <<"u7ecf", "u6d4e">>
      [] c = "SOCIETY"       -> <<"u793e", "u4f1a">>
      [] c = "TECHNOLOGY"    -> <<"u79d1", "u6280">>
      [] c = "CULTURE"       -> <<"u6587", "u5316">>
      [] c = "SPORTS"        -> <<"u4f53", "u80b2">>
      [] c = "INTERNATIONAL" -> <<"u56fd", "u9645">>
      [] c = "HEALTH"        -> <<"u5065", "u5eb7">>
      [] c = "EDUCATION"     -> <<"u6559", "u80b2">>
      [] c = "ENVIRONMENT"   -> <<"u73af", "u5883">>

\* the dataclass NewsItem as add_news builds it
NewsItem(title, summary, category, source, url, publish_time, importance) ==
    [title |-> title, summary |-> summary, category |-> category,
     source |-> source, url |-> url, publish_time |-> publish_time,
     importance |-> importance]

\* add_news with a lookup of the title first: an item whose title is already
\* present is dropped
add_news_dedup(items, item) ==
    IF \E i \in 1..Len(items) : items[i].title = item.title
    THEN items ELSE Append(items, item)

\* NewsDigest.add_news: no validation, no deduplication, append at the end
add_news(items, item) == Append(items, item)

\* the kept items returned last-inserted first
get_news_by_category_reversed(items, category) ==
    LET kept == SelectSeq(items, LAMBDA it : it.category = category)
    IN  [i \in 1..Len(kept) |-> kept[Len(kept) + 1 - i]]

\* the comprehension without its condition: every item is returned
get_news_by_category_all(items, category) == items

\* NewsDigest.get_news_by_category: a list comprehension over news_items
get_news_by_category(items, category) ==
    SelectSeq(items, LAMBDA it : it.category = category)

\* an unstable descending insertion: x is placed in front of the elements of
\* equal key
InsertDescUnstable(sorted, x) ==
    LET ahead == {i \in 1..Len(sorted) : sorted[i].importance > x.importance}
        k     == Cardinality(ahead)
    IN  SubSeq(sorted, 1, k) \o <<x>> \o SubSeq(sorted, k + 1, Len(sorted))

\* sorted(..., key=importance, reverse=True): Python's sort is stable, and
\* with reverse=True elements of equal key keep their original order.  x is
\* placed behind every element whose key is >= its own.
InsertDesc(sorted, x) ==
    LET ahead == {i \in 1..Len(sorted) : sorted[i].importance >= x.importance}
        k     == Cardinality(ahead)
    IN  SubSeq(sorted, 1, k) \o <<x>> \o SubSeq(sorted, k + 1, Len(sorted))

RECURSIVE SortedByImportanceDesc(_)
SortedByImportanceDesc(items) ==
    IF items = <<>> THEN <<>>
    ELSE InsertDesc(SortedByImportanceDesc(SubSeq(items, 1, Len(items) - 1)),
                    items[Len(items)])

\* get_top_news sorting the list of the Digest itself (list.sort)
news_items_sorted_in_place(items) == SortedByImportanceDesc(items)

\* the list of the Digest after get_top_news: sorted() builds a new list
\* and the slice another, self.news_items is as it was
news_items_after_get_top_news(items) == items

\* NewsDigest.get_top_news
get_top_news(items, limit) == SliceTo(SortedByImportanceDesc(items), limit)

\* str(n) for n >= 0: the decimal digits of n
DigitChar(d) == <<"0", "1", "2", "3", "4", "5", "6", "7", "8", "9">>[d + 1]

RECURSIVE Decimal(_)
Decimal(n) ==
    IF n < 10 THEN <<DigitChar(n)>>
    ELSE Decimal(n \div 10) \o <<DigitChar(n % 10)>>

\* the concatenation of a list of lists
RECURSIVE Concat(_)
Concat(lists) ==
    IF lists = <<>> THEN <<>> ELSE Head(lists) \o Concat(Tail(lists))

\* The report text is modelled as the list of its lines: every
\* `digest += "...\n"` appends a line, "\n\n" a line and an empty line.

\* the whole report of an empty Digest
NoNewsMessage == <<"u4eca", "u65e5", "u6682", "u65e0", "u65b0", "u95fb">>

\* the title of the report, followed by self.today and a rule of 50 '='
DigestTitle ==
    <<"u1f4f0", " ", "u4e2d", "u56fd", "u4eca", "u65e5", "u65b0", "u95fb",
      "u65e9", "u62a5", " ", "-", " ">>

HeaderLines(today) == << DigestTitle \o today, Rep("=", 50), <<>> >>

\* the heading of the headline section and the prefix of a category heading
TopNewsHeading == <<"u1f525", " ", "u5934", "u6761", "u65b0", "u95fb">>
CategoryHeading(category) == <<"u1f4cb", " ">> \o CategoryValue(category)

\* the three lines of one numbered item and the empty line after them
EntryLines(i, news) ==
    << Decimal(i) \o <<".", " ">> \o news.title,
       <<" ", " ", " ">> \o news.summary,
       <<" ", " ", " ", "u6765", "u6e90", "uff1a">> \o news.source,
       <<>> >>

\* for i, news in enumerate(items, 1): the lines of the items, numbered from 1
EntriesLines(items) ==
    Concat([i \in 1..Len(items) |-> EntryLines(i, items[i])])

\* a section: its heading, a rule of 20 '-', its numbered items
SectionLines(heading, items) ==
    <<heading, Rep("-", 20)>> \o EntriesLines(items)

\* the loop over NewsCategory taken from the last member to the first
RECURSIVE CategorySectionsReversed(_, _)
CategorySectionsReversed(items, categories) ==
    IF categories = <<>> THEN <<>>
    ELSE LET category      == categories[Len(categories)]
             category_news == get_news_by_category(items, category)
         IN  (IF category_news # <<>>
              THEN SectionLines(CategoryHeading(category), category_news)
              ELSE <<>>)
             \o CategorySectionsReversed(
                    items, SubSeq(categories, 1, Len(categories) - 1))

\* for category in NewsCategory: a section for every category that has
\* items, none for a category without items
RECURSIVE CategorySections(_, _)
CategorySections(items, categories) ==
    IF categories = <<>> THEN <<>>
    ELSE LET category      == Head(categories)
             category_news == get_news_by_category(items, category)
         IN  (IF category_news # <<>>
              THEN SectionLines(CategoryHeading(category), category_news)
              ELSE <<>>)
             \o CategorySections(items, Tail(categories))

\* the rule of 50 '=', the count line and the generation-time line
TrailerLines(count, now) ==
    << Rep("=", 50),
       <<"u1f4ca", " ", "u4eca", "u65e5", "u5171", "u6536", "u96c6", " ">>
           \o Decimal(count) \o <<" ", "u6761", "u65b0", "u95fb">>,
       <<"u23f0", " ", "u751f", "u6210", "u65f6", "u95f4", "uff1a">> \o now >>

\* the report of a Digest, empty or not, built as the non-empty one is
NonEmptyDigest(items, today, now) ==
    LET top_news == get_top_news(items, 3)
    IN  HeaderLines(today)
        \o (IF top_news # <<>> THEN SectionLines(TopNewsHeading, top_news)
                               ELSE <<>>)
        \o CategorySections(items, NewsCategoryOrder)
        \o TrailerLines(Len(items), now)

\* generate_digest without the test for an empty Digest
generate_digest_no_empty_test(items, today, now) ==
    NonEmptyDigest(items, today, now)

\* NewsDigest.generate_digest: the fixed message for an empty Digest;
\* otherwise the header, the headline section of get_top_news(3), the
\* category sections and the trailer
generate_digest(items, today, now) ==
    IF items = <<>> THEN <<NoNewsMessage>>
    ELSE NonEmptyDigest(items, today, now)

\* NewsDigest.export_json: the document written to the file; every item as
\* a dict of its fields with the category replaced by its value
export_json(items, today) ==
    [date       |-> today,
     total_news |-> Len(items),
     news_items |-> [i \in 1..Len(items) |->
                        [items[i] EXCEPT !.category = CategoryValue(@)]]]

\* the fields of an item that the HTML template is given
HtmlItem(item) ==
    [title |-> item.title, summary |-> item.summary, source |-> item.source,
     publish_time |-> item.publish_time, importance |-> item.importance]

\* the labels of the categories that have items
LabelsIn(items) == {CategoryValue(items[i].category) : i \in 1..Len(items)}

\* the items whose category has the label, in insertion order
ItemsLabelled(items, label) ==
    SelectSeq(items, LAMBDA item : CategoryValue(item.category) = label)

\* category_stats with `category_stats[category] = 1` in the loop: every
\* category that has items is counted once
category_stats_overwritten(items) ==
    [label \in LabelsIn(items) |-> 1]

\* category_stats: for every label that has items, the number of its items
category_stats(items) ==
    [label \in LabelsIn(items) |-> Len(ItemsLabelled(items, label))]

\* NewsManager.prepare_html_data on the manager's Digest
prepare_html_data(items, today, now) ==
    [title |-> <<"u4e2d", "u56fd", "u4eca", "u65e5", "u65b0", "u95fb",
                 "u65e9", "u62a5", " ", "-", " ">> \o today,
     date |-> today,
     total_news |-> Len(items),
     categories_count |-> Cardinality(DOMAIN category_stats(items)),
     top_news_count |-> Len(get_top_news(items, 3)),
     category_stats |-> category_stats(items),
     top_news |-> [i \in 1..Len(get_top_news(items, 3)) |->
                      HtmlItem(get_top_news(items, 3)[i])],
     categorized_news |-> [label \in LabelsIn(items) |->
                              LET of_label == ItemsLabelled(items, label)
                              IN  [i \in 1..Len(of_label) |->
                                      HtmlItem(of_label[i])]],
     generation_time |-> now]

----------------------------------------------------------------------------
(* src/news_crawler.py: NewsAggregator's hard-coded rules *)

politics_keywords ==
    {<<"u56fd", "u52a1", "u9662">>, <<"u653f", "u6cbb", "u5c40">>, <<"u4e2d", "u592e">>,
     <<"u653f", "u5e9c">>, <<"u653f", "u7b56">>, <<"u6cd5", "u89c4">>,
     <<"u4f1a", "u8bae">>, <<"u9886", "u5bfc", "u4eba">>, <<"u4e60", "u8fd1", "u5e73">>,
     <<"u674e", "u514b", "u5f3a">>}

economy_keywords ==
    {<<"u7ecf", "u6d4e">>, <<"u91d1", "u878d">>, <<"u80a1", "u5e02">>,
     <<"u94f6", "u884c">>, <<"u592e", "u884c">>, <<"G", "D", "P">>, <<"u6295", "u8d44">>,
     <<"u8d38", "u6613">>, <<"u51fa", "u53e3">>, <<"u8fdb", "u53e3">>, <<"u4f01", "u4e1a">>}

tech_keywords ==
    {<<"u79d1", "u6280">>, <<"u6280", "u672f">>, <<"u4e92", "u8054", "u7f51">>,
     <<"A", "I">>, <<"u4eba", "u5de5", "u667a", "u80fd">>, <<"5", "G">>,
     <<"u82af", "u7247">>, <<"u521b", "u65b0">>, <<"u6570", "u5b57", "u5316">>}

education_keywords ==
    {<<"u6559", "u80b2">>, <<"u5b66", "u6821">>, <<"u5b66", "u751f">>,
     <<"u6559", "u5e08">>, <<"u8003", "u8bd5">>, <<"u62db", "u751f">>,
     <<"u5927", "u5b66">>, <<"u57f9", "u8bad">>}

sports_keywords ==
    {<<"u4f53", "u80b2">>, <<"u8db3", "u7403">>, <<"u7bee", "u7403">>,
     <<"u5965", "u8fd0", "u4f1a">>, <<"u6bd4", "u8d5b">>, <<"u8fd0", "u52a8", "u5458">>,
     <<"u51a0", "u519b">>, <<"u8d5b", "u4e8b">>}

health_keywords ==
    {<<"u5065", "u5eb7">>, <<"u533b", "u7597">>, <<"u533b", "u9662">>,
     <<"u75be", "u75c5">>, <<"u75ab", "u82d7">>, <<"u836f", "u54c1">>,
     <<"u6cbb", "u7597">>, <<"u533b", "u751f">>}

environment_keywords ==
    {<<"u73af", "u5883">>, <<"u73af", "u4fdd">>, <<"u6c61", "u67d3">>,
     <<"u6c14", "u5019">>, <<"u751f", "u6001">>, <<"u7eff", "u8272">>,
     <<"u53ef", "u6301", "u7eed", "u53d1", "u5c55">>}

culture_keywords ==
    {<<"u6587", "u5316">>, <<"u827a", "u672f">>, <<"u7535", "u5f71">>,
     <<"u97f3", "u4e50">>, <<"u6587", "u5b66">>, <<"u5386", "u53f2">>,
     <<"u4f20", "u7edf">>, <<"u535a", "u7269", "u9986">>}

international_keywords ==
    {<<"u56fd", "u9645">>, <<"u5916", "u4ea4">>, <<"u7f8e", "u56fd">>,
     <<"u65e5", "u672c">>, <<"u6b27", "u6d32">>, <<"u8054", "u5408", "u56fd">>,
     <<"u5168", "u7403">>, <<"u4e16", "u754c">>}

\* any(keyword in text for keyword in keywords)
AnyKeywordIn(keywords, text) == \E keyword \in keywords : Contains(text, keyword)

\* the haystack both classifiers and both scorers build
Haystack(title, summary) == Lower(title \o <<" ">> \o summary)

\* NewsAggregator.categorize_news: the keyword tables tried in the order of
\* the code, the first table with a keyword in the text decides
categorize_news(title, summary) ==
    LET text == Haystack(title, summary)
    IN  IF AnyKeywordIn(politics_keywords, text) THEN "POLITICS"
        ELSE IF AnyKeywordIn(economy_keywords, text) THEN "ECONOMY"
        ELSE IF AnyKeywordIn(tech_keywords, text) THEN "TECHNOLOGY"
        ELSE IF AnyKeywordIn(education_keywords, text) THEN "EDUCATION"
        ELSE IF AnyKeywordIn(sports_keywords, text) THEN "SPORTS"
        ELSE IF AnyKeywordIn(health_keywords, text) THEN "HEALTH"
        ELSE IF AnyKeywordIn(environment_keywords, text) THEN "ENVIRONMENT"
        ELSE IF AnyKeywordIn(culture_keywords, text) THEN "CULTURE"
        ELSE IF AnyKeywordIn(international_keywords, text) THEN "INTERNATIONAL"
        ELSE "SOCIETY"

\* the first tier of NewsAggregator.determine_importance (its list is named
\* important_keywords in the code and scores 5)
aggregator_important_keywords ==
    {<<"u7d27", "u6025">>, <<"u91cd", "u5927">>, <<"u91cd", "u8981">>,
     <<"u7a81", "u53d1">>, <<"u9996", "u6b21">>, <<"u7a81", "u7834">>,
     <<"u521b", "u65b0">>, <<"u653f", "u7b56">>, <<"u6cd5", "u89c4">>}

aggregator_authoritative_sources ==
    {<<"u65b0", "u534e", "u793e">>, <<"u4eba", "u6c11", "u65e5", "u62a5">>,
     <<"u592e", "u89c6">>, <<"u4e2d", "u592e">>, <<"u56fd", "u52a1", "u9662">>}

\* len(title) > 20 in NewsAggregator.determine_importance
AggregatorTitleLength == 20

\* NewsAggregator.determine_importance.  Its authoritative tier is
\* any(source in authoritative_sources for source in authoritative_sources):
\* the generator's variable shadows the parameter, so each listed name is
\* looked up in the list itself and the parameter source is never read.
aggregator_determine_importance(title, summary, source) ==
    LET text == Haystack(title, summary)
    IN  IF AnyKeywordIn(aggregator_important_keywords, text) THEN 5
        ELSE IF \E s \in aggregator_authoritative_sources :
                    s \in aggregator_authoritative_sources THEN 4
        ELSE IF \/ Len(title) > AggregatorTitleLength
                \/ Contains(text, <<"u53d1", "u5e03">>)
                \/ Contains(text, <<"u516c", "u5e03">>) THEN 3
        ELSE 2

----------------------------------------------------------------------------
(* src/news_manager.py: NewsManager's configured rules *)

\* the inner loop of auto_categorize: the member whose value is the
\* configured category name, <<>> when the name is no member's value
EnumOfName(category_name) ==
    LET found == {c \in NewsCategory : CategoryValue(c) = category_name}
    IN  IF found = {} THEN <<>> ELSE <<CHOOSE c \in found : TRUE>>

\* the outer loop of auto_categorize from the i-th configured category on: a
\* category whose keywords match but whose name is no enumeration value does
\* not return, and the loop goes on
RECURSIVE CategorizeFrom(_, _, _)
CategorizeFrom(categories_config, text, i) ==
    IF i > Len(categories_config) THEN "SOCIETY"
    ELSE IF /\ AnyKeywordIn(categories_config[i].keywords, text)
            /\ EnumOfName(categories_config[i].name) # <<>>
         THEN EnumOfName(categories_config[i].name)[1]
         ELSE CategorizeFrom(categories_config, text, i + 1)

\* the loop run backwards: the last matching category decides
RECURSIVE CategorizeLastFrom(_, _, _)
CategorizeLastFrom(categories_config, text, i) ==
    IF i < 1 THEN "SOCIETY"
    ELSE IF /\ AnyKeywordIn(categories_config[i].keywords, text)
            /\ EnumOfName(categories_config[i].name) # <<>>
         THEN EnumOfName(categories_config[i].name)[1]
         ELSE CategorizeLastFrom(categories_config, text, i - 1)

auto_categorize_last_match(cfg, title, summary) ==
    IF ~Get(cfg.auto_categorize, TRUE) THEN "SOCIETY"
    ELSE CategorizeLastFrom(cfg.categories, Haystack(title, summary),
                            Len(cfg.categories))

\* NewsManager.auto_categorize
auto_categorize(cfg, title, summary) ==
    IF ~Get(cfg.auto_categorize, TRUE) THEN "SOCIETY"
    ELSE CategorizeFrom(cfg.categories, Haystack(title, summary), 1)

\* importance_config.get('title_length_threshold', 20)
DefaultTitleLengthThreshold == 20

\* the same decision list with the authoritative-source tier tried first
determine_importance_source_first(cfg, title, summary, source) ==
    LET text == Haystack(title, summary)
    IN  IF ~Get(cfg.auto_importance, TRUE) THEN 3
        ELSE IF \E auth_source \in cfg.authoritative_sources :
                    Contains(auth_source, source) THEN 4
        ELSE IF AnyKeywordIn(cfg.critical_keywords, text) THEN 5
        ELSE IF AnyKeywordIn(cfg.important_keywords, text) THEN 3
        ELSE IF Len(title) > Get(cfg.title_length_threshold, DefaultTitleLengthThreshold)
             THEN 3
        ELSE 2

\* NewsManager.determine_importance.  The authoritative tier is
\* any(source in auth_source for auth_source in authoritative_sources): the
\* item's source is looked for inside each listed name.
determine_importance(cfg, title, summary, source) ==
    LET text == Haystack(title, summary)
    IN  IF ~Get(cfg.auto_importance, TRUE) THEN 3
        ELSE IF AnyKeywordIn(cfg.critical_keywords, text) THEN 5
        ELSE IF \E auth_source \in cfg.authoritative_sources :
                    Contains(auth_source, source) THEN 4
        ELSE IF AnyKeywordIn(cfg.important_keywords, text) THEN 3
        ELSE IF Len(title) > Get(cfg.title_length_threshold, DefaultTitleLengthThreshold)
             THEN 3
        ELSE 2

\* filters.get('min_title_length', 5), ('max_title_length', 100),
\* ('min_summary_length', 10), ('max_summary_length', 500)
DefaultMinTitleLength == 5
DefaultMaxTitleLength == 100
DefaultMinSummaryLength == 10
DefaultMaxSummaryLength == 500

\* A raw record is a dict: each of title, summary, source is <<>> when the
\* key is absent and <<text>> when it is present.  filter_news returns
\* <<TRUE>> or <<FALSE>>, or <<>> when a subscript news['title'] or
\* news['summary'] raises KeyError (the method returns nothing).

\* the length checks with exclusive bounds
filter_news_exclusive_bounds(cfg, news) ==
    IF cfg.title_blacklist # {} /\ news.title = <<>> THEN <<>>
    ELSE IF \E keyword \in cfg.title_blacklist : Contains(news.title[1], keyword)
         THEN <<FALSE>>
    ELSE IF \E keyword \in cfg.source_blacklist :
                Contains(Get(news.source, <<>>), keyword)
         THEN <<FALSE>>
    ELSE IF news.title = <<>> THEN <<>>
    ELSE IF ~(/\ Get(cfg.min_title_length, DefaultMinTitleLength) < Len(news.title[1])
              /\ Len(news.title[1]) < Get(cfg.max_title_length, DefaultMaxTitleLength))
         THEN <<FALSE>>
    ELSE IF news.summary = <<>> THEN <<>>
    ELSE IF ~(/\ Get(cfg.min_summary_length, DefaultMinSummaryLength) < Len(news.summary[1])
              /\ Len(news.summary[1]) < Get(cfg.max_summary_length, DefaultMaxSummaryLength))
         THEN <<FALSE>>
    ELSE <<TRUE>>

\* NewsManager.filter_news, statement by statement: news['title'] is first
\* evaluated inside the generator over title_blacklist (so only when that
\* list is not empty), the source is read with news.get('source', ''), then
\* news['title'] and news['summary'] are subscripted for the length checks.
filter_news(cfg, news) ==
    IF cfg.title_blacklist # {} /\ news.title = <<>> THEN <<>>
    ELSE IF \E keyword \in cfg.title_blacklist : Contains(news.title[1], keyword)
         THEN <<FALSE>>
    ELSE IF \E keyword \in cfg.source_blacklist :
                Contains(Get(news.source, <<>>), keyword)
         THEN <<FALSE>>
    ELSE IF news.title = <<>> THEN <<>>
    ELSE IF ~(/\ Get(cfg.min_title_length, DefaultMinTitleLength) <= Len(news.title[1])
              /\ Len(news.title[1]) <= Get(cfg.max_title_length, DefaultMaxTitleLength))
         THEN <<FALSE>>
    ELSE IF news.summary = <<>> THEN <<>>
    ELSE IF ~(/\ Get(cfg.min_summary_length, DefaultMinSummaryLength) <= Len(news.summary[1])
              /\ Len(news.summary[1]) <= Get(cfg.max_summary_length, DefaultMaxSummaryLength))
         THEN <<FALSE>>
    ELSE <<TRUE>>

----------------------------------------------------------------------------
(* The callers' inputs to the Digest *)

TitleA == <<"a">>
TitleB == <<"b">>
SummaryS == <<"s">>
SourceX == <<"x">>
SourceY == <<"y">>

\* the items direct callers add: equal titles from two sources, ties of
\* importance, several categories, and importances outside 1..5 (add_news
\* takes any int)
AddInputs ==
    { NewsItem(TitleA, SummaryS, "ECONOMY", SourceX, <<>>, <<>>, 5),
      NewsItem(TitleA, SummaryS, "SPORTS",  SourceY, <<>>, <<>>, 5),
      NewsItem(TitleB, SummaryS, "ECONOMY", SourceX, <<>>, <<>>, 3),
      NewsItem(TitleB, SummaryS, "SPORTS",  SourceX, <<>>, <<>>, 1),
      NewsItem(TitleB, SummaryS, "HEALTH",  SourceY, <<>>, <<>>, 6),
      NewsItem(TitleA, SummaryS, "SOCIETY", SourceX, <<>>, <<>>, 0) }

\* the categories callers query: three in use and one that no item has
QueryCategories == {"ECONOMY", "SPORTS", "SOCIETY", "CULTURE"}

\* 'max_news_count' of the system section of get_default_config
DefaultMaxNewsCount == 50

\* the configuration NewsManager.get_default_config returns, as far as the
\* model reads it: no categories, no importance section, no filters section,
\* one RSS source, no web source, no output section, the news count of the
\* system section.  An absent key is <<>>,
\* the sources of a kind are the list of the mapping's values in its order.
DefaultConfig ==
    [auto_categorize |-> <<TRUE>>, auto_importance |-> <<TRUE>>,
     categories |-> <<>>,
     critical_keywords |-> {}, authoritative_sources |-> {},
     important_keywords |-> {}, title_length_threshold |-> <<>>,
     title_blacklist |-> {}, source_blacklist |-> {},
     min_title_length |-> <<>>, max_title_length |-> <<>>,
     min_summary_length |-> <<>>, max_summary_length |-> <<>>,
     rss_sources |-> << [name |-> <<"u4eba", "u6c11", "u7f51", "u653f", "u6cbb">>,
                         enabled |-> <<TRUE>>] >>,
     web_sources |-> <<>>,
     txt_enabled |-> <<>>, json_enabled |-> <<>>, html_enabled |-> <<>>,
     max_news_count |-> <<DefaultMaxNewsCount>>]

\* the position of a manager that has been constructed and has not run:
\* runs counts the calls of run, kept is the length of the Digest when the
\* last of them began
Constructed ==
    [pc |-> "constructed", next |-> 0, outputs |-> {}, error |-> <<>>,
     runs |-> 0, kept |-> 0]

----------------------------------------------------------------------------
(* The Digest used directly: NewsDigest(), then any calls *)

Init ==
    /\ config = DefaultConfig
    /\ news_items = <<>>
    /\ op = "init"
    /\ arg = <<>>
    /\ ret = <<>>
    /\ run = Constructed

AddNews ==
    \E item \in AddInputs :
        /\ Len(news_items) < MaxItems
        /\ news_items' = add_news(news_items, item)
        /\ op' = "add_news"
        /\ arg' = item
        /\ ret' = <<>>
        /\ UNCHANGED <<config, run>>

GetNewsByCategory ==
    \E category \in QueryCategories :
        /\ op' = "get_news_by_category"
        /\ arg' = [category |-> category]
        /\ ret' = get_news_by_category(news_items, category)
        /\ UNCHANGED <<config, news_items, run>>

GetTopNews ==
    \E limit \in (-1)..MaxLimit :
        /\ op' = "get_top_news"
        /\ arg' = [limit |-> limit]
        /\ ret' = get_top_news(news_items, limit)
        /\ news_items' = news_items_after_get_top_news(news_items)
        /\ UNCHANGED <<config, run>>

\* NewsDigest.today and the clock at the time of generation
Today == <<"2", "0", "2", "4", "u5e74", "0", "1", "u6708", "1", "5", "u65e5">>
Now ==
    <<"2", "0", "2", "4", "-", "0", "1", "-", "1", "5", " ",
      "0", "8", ":", "0", "0", ":", "0", "0">>

GenerateDigest ==
    /\ op' = "generate_digest"
    /\ arg' = <<>>
    /\ ret' = generate_digest(news_items, Today, Now)
    /\ news_items' = news_items_after_get_top_news(news_items)
    /\ UNCHANGED <<config, run>>

\* export_json returns nothing; ret is the document it writes
ExportJson ==
    /\ op' = "export_json"
    /\ arg' = <<>>
    /\ ret' = export_json(news_items, Today)
    /\ UNCHANGED <<config, news_items, run>>

PrepareHtmlData ==
    /\ op' = "prepare_html_data"
    /\ arg' = <<>>
    /\ ret' = prepare_html_data(news_items, Today, Now)
    /\ news_items' = news_items_after_get_top_news(news_items)
    /\ UNCHANGED <<config, run>>

Next ==
    \/ AddNews \/ GetNewsByCategory \/ GetTopNews
    \/ GenerateDigest \/ ExportJson \/ PrepareHtmlData

Spec == Init /\ [][Next]_vars

----------------------------------------------------------------------------
(* Properties of the Digest *)

\* the position item i takes when the items are ordered by importance
\* descending and, among equal importances, by insertion index ascending
StableRank(items, i) ==
    1 + Cardinality({j \in 1..Len(items) :
            \/ items[j].importance > items[i].importance
            \/ items[j].importance = items[i].importance /\ j < i})

\* the number of items of the category at indices up to i
PosInCategory(items, category, i) ==
    Cardinality({j \in 1..i : items[j].category = category})

\* the number of occurrences of x in s
Count(x, s) == Cardinality({i \in 1..Len(s) : s[i] = x})

RECURSIVE SumOverCategories(_, _, _)
SumOverCategories(items, x, k) ==
    IF k = 0 THEN 0
    ELSE Count(x, get_news_by_category(items, NewsCategoryOrder[k]))
         + SumOverCategories(items, x, k - 1)

\* C1: for every limit n >= 0, get_top_news(n) returns the first
\* min(n, count) items of the sequence ordered by importance descending, items
\* of equal importance in insertion order; n beyond the size returns all.
C1_TopNewsStable ==
    (op = "get_top_news" /\ arg.limit >= 0) =>
        /\ Len(ret) = Min(arg.limit, Len(news_items))
        /\ \A i \in 1..Len(news_items) :
              StableRank(news_items, i) <= arg.limit =>
                  ret[StableRank(news_items, i)] = news_items[i]

\* C1 witness: top(2) of a Digest in which a less important item precedes two
\* different items of equal, higher importance: both are returned in
\* insertion order and the result is truncated.
C1_Witness ==
    /\ op = "get_top_news" /\ arg.limit = 2
    /\ Len(news_items) >= 3
    /\ \E i, j, k \in 1..Len(news_items) :
          /\ i < j /\ j < k
          /\ news_items[i].importance < news_items[j].importance
          /\ news_items[j].importance = news_items[k].importance
          /\ news_items[j] # news_items[k]
          /\ ret = <<news_items[j], news_items[k]>>

\* C2: get_news_by_category(c) returns exactly the items whose category is
\* c, in insertion order: the m-th item of category c is the m-th result.
C2_ByCategoryStableFilter ==
    op = "get_news_by_category" =>
        /\ Len(ret) = Cardinality({i \in 1..Len(news_items) :
                           news_items[i].category = arg.category})
        /\ \A i \in 1..Len(news_items) :
              news_items[i].category = arg.category =>
                  ret[PosInCategory(news_items, arg.category, i)] = news_items[i]

\* C2 witness: a query that kept two different items and dropped an item of
\* another category that was inserted between them.
C2_Witness ==
    /\ op = "get_news_by_category"
    /\ Len(ret) = 2 /\ ret[1] # ret[2]
    /\ \E i, j, k \in 1..Len(news_items) :
          /\ i < j /\ j < k
          /\ news_items[i] = ret[1] /\ news_items[k] = ret[2]
          /\ news_items[j].category # arg.category

\* C3: in every Digest built by add_news, each item occurs in the
\* get_news_by_category results, taken over all members of NewsCategory,
\* exactly as often as it occurs in the Digest.
C3_CategoryPartition ==
    \A i \in 1..Len(news_items) :
        SumOverCategories(news_items, news_items[i], Len(NewsCategoryOrder))
            = Count(news_items[i], news_items)

\* C3 witness: a Digest with three categories in use and one item added twice.
C3_Witness ==
    /\ op = "add_news"
    /\ Cardinality({news_items[i].category : i \in 1..Len(news_items)}) >= 3
    /\ \E i, j \in 1..Len(news_items) : i < j /\ news_items[i] = news_items[j]

\* C4: add_news appends the new item at the end: the previous sequence is an
\* unchanged prefix and the count grows by one, also when the title is
\* already present.
C4_AddAppends ==
    [][op' = "add_news" =>
          /\ Len(news_items') = Len(news_items) + 1
          /\ SubSeq(news_items', 1, Len(news_items)) = news_items
          /\ news_items'[Len(news_items')] = arg']_vars

\* C4 witness: the item just added has the title of an earlier item from
\* another source, and both are in the Digest.
C4_Witness ==
    /\ op = "add_news"
    /\ news_items[Len(news_items)] = arg
    /\ \E i \in 1..(Len(news_items) - 1) :
          /\ news_items[i].title = arg.title
          /\ news_items[i].source # arg.source

\* C5: every item of the Digest has an importance in 1..5.
C5_ImportanceInRange ==
    \A i \in 1..Len(news_items) : news_items[i].importance \in 1..5

\* C13: generate_digest on an empty Digest returns exactly the fixed
\* no-items message: no header, no headline section, no category section, no
\* count line, and no error.
C13_EmptyDigestMessage ==
    (op = "generate_digest" /\ news_items = <<>>) => ret = <<NoNewsMessage>>

\* C13 witness: the report of the Digest as constructed, before any item.
C13_Witness ==
    /\ op = "generate_digest"
    /\ news_items = <<>>
    /\ ret = <<NoNewsMessage>>

\* the report laid out with one section for each of the given categories:
\* header, headline section of top(3), the category sections, trailer
ReportLayout(items, categories) ==
    HeaderLines(Today)
    \o SectionLines(TopNewsHeading, get_top_news(items, 3))
    \o Concat([k \in 1..Len(categories) |->
                  SectionLines(CategoryHeading(categories[k]),
                               get_news_by_category(items, categories[k]))])
    \o TrailerLines(Len(items), Now)

\* the number of the given categories whose section lists the item at i
SectionsListing(items, categories, i) ==
    Cardinality({k \in 1..Len(categories) :
        \E j \in 1..Len(get_news_by_category(items, categories[k])) :
            get_news_by_category(items, categories[k])[j] = items[i]})

\* the categories that have at least one item, in enumeration order
CategoriesWithItems(items) ==
    SelectSeq(NewsCategoryOrder,
              LAMBDA c : \E i \in 1..Len(items) : items[i].category = c)

\* C14 as stated: the report of a non-empty Digest is the header, the headline
\* section of top(3), one section for every member of NewsCategory in
\* enumeration order with that category's items in insertion order, and the
\* trailing count line; every item is in exactly one category section.
C14_SectionPerCategory ==
    (op = "generate_digest" /\ news_items # <<>>) =>
        /\ ret = ReportLayout(news_items, NewsCategoryOrder)
        /\ \A i \in 1..Len(news_items) :
              SectionsListing(news_items, NewsCategoryOrder, i) = 1

\* C14 amended: the report of a non-empty Digest is the header, the headline
\* section of top(3), one section for every member of NewsCategory that has
\* at least one item, in enumeration order, with that category's items in
\* insertion order, and the trailing count line; every item is in exactly one
\* category section.
C14_SectionPerCategoryWithItems ==
    (op = "generate_digest" /\ news_items # <<>>) =>
        /\ ret = ReportLayout(news_items, CategoriesWithItems(news_items))
        /\ \A i \in 1..Len(news_items) :
              SectionsListing(news_items, CategoriesWithItems(news_items), i) = 1

\* C14 witness: the report of a Digest whose items were added in an order
\* that is neither the enumeration order of their categories nor the order
\* of their importance, with two items in one category.
C14_Witness ==
    /\ op = "generate_digest"
    /\ Len(news_items) >= 3
    /\ Len(CategoriesWithItems(news_items)) >= 2
    /\ get_top_news(news_items, 3) # SubSeq(news_items, 1, 3)
    /\ \E i, j, k \in 1..Len(news_items) :
          /\ i < j /\ j < k
          /\ news_items[i].category = "SPORTS"
          /\ news_items[j].category = "ECONOMY"
          /\ news_items[k].category = "SPORTS"
          /\ news_items[i] # news_items[k]
    /\ ret = ReportLayout(news_items, CategoriesWithItems(news_items))

\* the number a line shows: the value of its decimal digits read in order
RECURSIVE NumberIn(_)
NumberIn(line) ==
    IF line = <<>> THEN 0
    ELSE LET last == line[Len(line)]
             rest == NumberIn(SubSeq(line, 1, Len(line) - 1))
         IN  IF \E d \in 0..9 : DigitChar(d) = last
             THEN 10 * rest + (CHOOSE d \in 0..9 : DigitChar(d) = last)
             ELSE rest

\* the count a per-category table gives for a label (0 when it has no entry)
StatOf(stats, label) == IF label \in DOMAIN stats THEN stats[label] ELSE 0

RECURSIVE SumOfStats(_, _)
SumOfStats(stats, k) ==
    IF k = 0 THEN 0
    ELSE StatOf(stats, CategoryValue(NewsCategoryOrder[k]))
         + SumOfStats(stats, k - 1)

\* C15: the outputs agree with the Digest they render: the count line of the
\* report, total_news of the export and total_news of the HTML data all give
\* the number of items; the export lists the items in insertion order with
\* the category as its label; the per-category counts of the HTML data are
\* the sizes of get_news_by_category(c) and sum to the total.
C15_ProjectionsAgree ==
    /\ (op = "generate_digest" /\ news_items # <<>>) =>
           NumberIn(ret[Len(ret) - 1]) = Len(news_items)
    /\ op = "export_json" =>
           /\ ret.total_news = Len(news_items)
           /\ Len(ret.news_items) = Len(news_items)
           /\ \A i \in 1..Len(news_items) :
                 /\ ret.news_items[i].category
                        = CategoryValue(news_items[i].category)
                 /\ ret.news_items[i].title = news_items[i].title
                 /\ ret.news_items[i].summary = news_items[i].summary
                 /\ ret.news_items[i].source = news_items[i].source
                 /\ ret.news_items[i].url = news_items[i].url
                 /\ ret.news_items[i].publish_time = news_items[i].publish_time
                 /\ ret.news_items[i].importance = news_items[i].importance
    /\ op = "prepare_html_data" =>
           /\ ret.total_news = Len(news_items)
           /\ DOMAIN ret.category_stats
                  \subseteq {CategoryValue(c) : c \in NewsCategory}
           /\ \A c \in NewsCategory :
                 StatOf(ret.category_stats, CategoryValue(c))
                     = Len(get_news_by_category(news_items, c))
           /\ SumOfStats(ret.category_stats, Len(NewsCategoryOrder))
                  = ret.total_news

\* C15 witness: the HTML data of a Digest with two items in one category,
\* one in another, and categories without items.
C15_Witness ==
    /\ op = "prepare_html_data"
    /\ ret.total_news = 3
    /\ Cardinality(DOMAIN ret.category_stats) = 2
    /\ \E label \in DOMAIN ret.category_stats : ret.category_stats[label] = 2

----------------------------------------------------------------------------
(* The classifiers applied to one (title, summary) under one configuration *)

\* the tables of categorize_news in the order the code tries them
AggregatorRules ==
    << [category |-> "POLITICS",      keywords |-> politics_keywords],
       [category |-> "ECONOMY",       keywords |-> economy_keywords],
       [category |-> "TECHNOLOGY",    keywords |-> tech_keywords],
       [category |-> "EDUCATION",     keywords |-> education_keywords],
       [category |-> "SPORTS",        keywords |-> sports_keywords],
       [category |-> "HEALTH",        keywords |-> health_keywords],
       [category |-> "ENVIRONMENT",   keywords |-> environment_keywords],
       [category |-> "CULTURE",       keywords |-> culture_keywords],
       [category |-> "INTERNATIONAL", keywords |-> international_keywords] >>

\* titles: an upper-case and a lower-case spelling of a keyword, a politics
\* keyword, an economy keyword inside other characters, no keyword
ClassifyTitles ==
    { <<"G", "D", "P">>, <<"g", "d", "p">>, <<"u653f", "u7b56">>,
      <<"x", "u7ecf", "u6d4e", "x">>, <<"x">> }

\* summaries: empty, a technology keyword in upper case, an economy keyword,
\* an education keyword
ClassifySummaries ==
    { <<>>, <<"A", "I">>, <<"u7ecf", "u6d4e">>, <<"u6559", "u80b2">> }

\* category names of a configuration: two enumeration values and a name
\* that is no member's value
ConfigCategoryNames ==
    { CategoryValue("ECONOMY"), CategoryValue("TECHNOLOGY"), <<"u519b", "u4e8b">> }

\* keyword lists of a configured category
ConfigKeywordSets ==
    { {}, {<<"g", "d", "p">>}, {<<"G", "D", "P">>},
      {<<"u7ecf", "u6d4e">>, <<"a", "i">>} }

\* the `categories` sections: ordered mappings from distinct names to keywords
CategoriesConfigs ==
    { cs \in UNION { [1..n -> [name : ConfigCategoryNames, keywords : ConfigKeywordSets]] :
                        n \in 0..MaxConfigCategories } :
        \A i, j \in 1..Len(cs) : i # j => cs[i].name # cs[j].name }

\* system.auto_categorize: absent, true or false
ClassifyConfigs ==
    { [DefaultConfig EXCEPT !.auto_categorize = flag, !.categories = cs] :
        flag \in {<<>>, <<TRUE>>, <<FALSE>>}, cs \in CategoriesConfigs }

InitClassify ==
    /\ config \in ClassifyConfigs
    /\ news_items = <<>>
    /\ op = "init"
    /\ arg \in [title : ClassifyTitles, summary : ClassifySummaries]
    /\ ret = <<>>
    /\ run = Constructed

AutoCategorize ==
    /\ op' = "auto_categorize"
    /\ ret' = auto_categorize(config, arg.title, arg.summary)
    /\ UNCHANGED <<config, news_items, arg, run>>

CategorizeNews ==
    /\ op' = "categorize_news"
    /\ ret' = categorize_news(arg.title, arg.summary)
    /\ UNCHANGED <<config, news_items, arg, run>>

NextClassify == AutoCategorize \/ CategorizeNews

SpecClassify == InitClassify /\ [][NextClassify]_vars

\* the least element of a non-empty set of indices
FirstIn(S) == CHOOSE i \in S : \A j \in S : i <= j

\* the configured categories with a keyword contained in the haystack
MatchingConfigured(text) ==
    {i \in 1..Len(config.categories) :
        AnyKeywordIn(config.categories[i].keywords, text)}

\* the tables of categorize_news with a keyword contained in the haystack
MatchingAggregator(text) ==
    {i \in 1..Len(AggregatorRules) : AnyKeywordIn(AggregatorRules[i].keywords, text)}

\* categorize_news returns the category of the first table with a keyword in
\* the haystack, Society when there is none
AggregatorFirstMatch ==
    op = "categorize_news" =>
        LET m == MatchingAggregator(Haystack(arg.title, arg.summary))
        IN  /\ ret \in NewsCategory
            /\ IF m = {} THEN ret = "SOCIETY"
                         ELSE ret = AggregatorRules[FirstIn(m)].category

\* C6 as stated: classify returns the first configured category, in
\* priority order, that has a keyword contained in the haystack, and Society
\* when no configured category has one; the result is a member of NewsCategory.
C6_FirstMatchWins ==
    /\ AggregatorFirstMatch
    /\ op = "auto_categorize" =>
          LET m == MatchingConfigured(Haystack(arg.title, arg.summary))
          IN  /\ ret \in NewsCategory
              /\ IF m = {} THEN ret = "SOCIETY"
                           ELSE CategoryValue(ret) = config.categories[FirstIn(m)].name

\* C6, amended: with auto-categorization enabled (system.auto_categorize,
\* true when absent) auto_categorize returns the first configured category, in
\* configuration order, whose name is the value of a NewsCategory member and
\* that has a keyword contained in the haystack; it returns Society when there
\* is none and whenever auto-categorization is disabled.  categorize_news
\* returns the first of its tables with a keyword in the haystack, Society when
\* there is none.  The result is always a member of NewsCategory.
C6_FirstEnumMatchWins ==
    /\ AggregatorFirstMatch
    /\ op = "auto_categorize" =>
          LET m == {i \in MatchingConfigured(Haystack(arg.title, arg.summary)) :
                       \E c \in NewsCategory :
                           CategoryValue(c) = config.categories[i].name}
          IN  /\ ret \in NewsCategory
              /\ IF ~Get(config.auto_categorize, TRUE) \/ m = {}
                 THEN ret = "SOCIETY"
                 ELSE CategoryValue(ret) = config.categories[FirstIn(m)].name

\* C6 witness: two configured categories both have a keyword in the haystack
\* and auto_categorize returned the earlier one.
C6_Witness ==
    /\ op = "auto_categorize"
    /\ Get(config.auto_categorize, TRUE)
    /\ Len(config.categories) = 2
    /\ MatchingConfigured(Haystack(arg.title, arg.summary)) = {1, 2}
    /\ CategoryValue(ret) = config.categories[1].name
    /\ ret # "SOCIETY"

\* a keyword occurs in the text in some letter case
ContainsAnyCase(text, keyword) == Contains(Lower(text), Lower(keyword))

\* C7: keyword matching is case-insensitive: a keyword that occurs in the
\* title/summary in any letter case counts as a match of its category, so the
\* first category (in priority order) with such a keyword is returned.
C7_CaseInsensitiveMatch ==
    /\ op = "categorize_news" =>
          LET text == arg.title \o <<" ">> \o arg.summary
              m == {i \in 1..Len(AggregatorRules) :
                       \E k \in AggregatorRules[i].keywords : ContainsAnyCase(text, k)}
          IN  m # {} => ret = AggregatorRules[FirstIn(m)].category
    /\ (/\ op = "auto_categorize"
        /\ Get(config.auto_categorize, TRUE)
        /\ \A i \in 1..Len(config.categories) :
              EnumOfName(config.categories[i].name) # <<>>) =>
          LET text == arg.title \o <<" ">> \o arg.summary
              m == {i \in 1..Len(config.categories) :
                       \E k \in config.categories[i].keywords : ContainsAnyCase(text, k)}
          IN  m # {} => CategoryValue(ret) = config.categories[FirstIn(m)].name

----------------------------------------------------------------------------
(* The scorers applied to one (title, summary, source) under one configuration *)

CriticalKeyword == <<"u91cd", "u5927">>
ImportantKeyword == <<"u53d1", "u5e03">>
AuthoritativeSource == <<"u65b0", "u534e", "u793e">>

\* titles: short without keyword, a critical keyword, longer than the default
\* threshold, longer than a configured threshold of 2
ScoreTitles ==
    { <<"x">>, CriticalKeyword, Rep("x", DefaultTitleLengthThreshold + 1),
      <<"x", "x", "x">> }

\* summaries: empty, an important keyword, a critical and an important keyword
ScoreSummaries ==
    { <<>>, ImportantKeyword, CriticalKeyword \o ImportantKeyword }

\* sources: empty, a listed name, a part of a listed name, an unlisted name
ScoreSources ==
    { <<>>, AuthoritativeSource, <<"u65b0", "u534e">>, <<"b", "l", "o", "g">> }

\* the `importance` sections and system.auto_importance
ScoreConfigs ==
    { [DefaultConfig EXCEPT !.auto_importance = flag,
                            !.critical_keywords = ck,
                            !.authoritative_sources = as,
                            !.important_keywords = ik,
                            !.title_length_threshold = th] :
        flag \in {<<>>, <<TRUE>>, <<FALSE>>},
        ck \in {{}, {CriticalKeyword}},
        as \in {{}, {AuthoritativeSource}},
        ik \in {{}, {ImportantKeyword}},
        th \in {<<>>, <<2>>} }

InitScore ==
    /\ config \in ScoreConfigs
    /\ news_items = <<>>
    /\ op = "init"
    /\ arg \in [title : ScoreTitles, summary : ScoreSummaries, source : ScoreSources]
    /\ ret = <<>>
    /\ run = Constructed

DetermineImportance ==
    /\ op' = "determine_importance"
    /\ ret' = determine_importance(config, arg.title, arg.summary, arg.source)
    /\ UNCHANGED <<config, news_items, arg, run>>

AggregatorDetermineImportance ==
    /\ op' = "aggregator_determine_importance"
    /\ ret' = aggregator_determine_importance(arg.title, arg.summary, arg.source)
    /\ UNCHANGED <<config, news_items, arg, run>>

NextScore == DetermineImportance \/ AggregatorDetermineImportance

SpecScore == InitScore /\ [][NextScore]_vars

\* C8 as stated: whenever the text contains a critical keyword the score
\* is 5, whatever else holds.
C8_CriticalScoresFive ==
    /\ (/\ op = "determine_importance"
        /\ AnyKeywordIn(config.critical_keywords, Haystack(arg.title, arg.summary)))
          => ret = 5
    /\ (/\ op = "aggregator_determine_importance"
        /\ AnyKeywordIn(aggregator_important_keywords, Haystack(arg.title, arg.summary)))
          => ret = 5

\* C8, amended: with automatic importance enabled (system.auto_importance,
\* true when absent), whenever the haystack contains a critical keyword the
\* score is 5, whether or not an important keyword is present, the source is
\* authoritative or the title is long; with it disabled the score is 3.
C8_CriticalScoresFiveWhenEnabled ==
    /\ (/\ op = "determine_importance"
        /\ AnyKeywordIn(config.critical_keywords, Haystack(arg.title, arg.summary)))
          => ret = IF Get(config.auto_importance, TRUE) THEN 5 ELSE 3
    /\ (/\ op = "aggregator_determine_importance"
        /\ AnyKeywordIn(aggregator_important_keywords, Haystack(arg.title, arg.summary)))
          => ret = 5

\* C8 witness: a critical and an important keyword in the text, an
\* authoritative source, and the score is 5.
C8_Witness ==
    /\ op = "determine_importance"
    /\ Get(config.auto_importance, TRUE)
    /\ AnyKeywordIn(config.critical_keywords, Haystack(arg.title, arg.summary))
    /\ AnyKeywordIn(config.important_keywords, Haystack(arg.title, arg.summary))
    /\ arg.source \in config.authoritative_sources
    /\ ret = 5

\* C9: without a critical keyword the score is 4 exactly when the source
\* name is in the authoritative-source list, otherwise 3 when an important
\* keyword is present or the title is longer than the threshold, otherwise 2.
C9_RemainingDecisionList ==
    /\ (/\ op = "determine_importance"
        /\ Get(config.auto_importance, TRUE)
        /\ ~AnyKeywordIn(config.critical_keywords, Haystack(arg.title, arg.summary)))
          => ret = IF arg.source \in config.authoritative_sources THEN 4
                   ELSE IF \/ AnyKeywordIn(config.important_keywords,
                                           Haystack(arg.title, arg.summary))
                           \/ Len(arg.title) > Get(config.title_length_threshold,
                                                   DefaultTitleLengthThreshold)
                        THEN 3
                   ELSE 2
    /\ (/\ op = "aggregator_determine_importance"
        /\ ~AnyKeywordIn(aggregator_important_keywords, Haystack(arg.title, arg.summary)))
          => ret = IF arg.source \in aggregator_authoritative_sources THEN 4
                   ELSE IF \/ Len(arg.title) > AggregatorTitleLength
                           \/ Contains(Haystack(arg.title, arg.summary), <<"u53d1", "u5e03">>)
                           \/ Contains(Haystack(arg.title, arg.summary), <<"u516c", "u5e03">>)
                        THEN 3
                   ELSE 2

----------------------------------------------------------------------------
(* The filter applied to one raw record under one configuration *)

BlacklistedTitleWord == <<"a", "d">>
BlacklistedSourceWord == <<"s", "p", "a", "m">>

\* titles: absent, one character below and at the default minimum, at and one
\* above the default maximum, and one holding a blacklisted word
FilterTitles ==
    { <<>>,
      <<Rep("x", DefaultMinTitleLength - 1)>>, <<Rep("x", DefaultMinTitleLength)>>,
      <<Rep("x", DefaultMaxTitleLength)>>, <<Rep("x", DefaultMaxTitleLength + 1)>>,
      <<BlacklistedTitleWord \o Rep("x", DefaultMinTitleLength)>> }

\* summaries: absent, and the four lengths around the default bounds
FilterSummaries ==
    { <<>>,
      <<Rep("y", DefaultMinSummaryLength - 1)>>, <<Rep("y", DefaultMinSummaryLength)>>,
      <<Rep("y", DefaultMaxSummaryLength)>>, <<Rep("y", DefaultMaxSummaryLength + 1)>> }

\* sources: absent, one holding a blacklisted word, one without
FilterSources ==
    { <<>>, <<<<"x">> \o BlacklistedSourceWord>>, <<<<"o", "k">>>> }

\* the `filters` sections: absent or with both blacklists; the length bounds
\* absent (the defaults apply) or configured
FilterConfigs ==
    { [DefaultConfig EXCEPT !.title_blacklist = bl[1], !.source_blacklist = bl[2],
                            !.min_title_length = b[1], !.max_title_length = b[2],
                            !.min_summary_length = b[3], !.max_summary_length = b[4]] :
        bl \in { <<{}, {}>>, <<{BlacklistedTitleWord}, {BlacklistedSourceWord}>> },
        b \in { <<<<>>, <<>>, <<>>, <<>>>>,
                <<<<DefaultMinTitleLength - 1>>, <<DefaultMinTitleLength>>,
                  <<DefaultMinSummaryLength - 1>>, <<DefaultMinSummaryLength>>>> } }

InitFilter ==
    /\ config \in FilterConfigs
    /\ news_items = <<>>
    /\ op = "init"
    /\ arg \in [title : FilterTitles, summary : FilterSummaries, source : FilterSources]
    /\ ret = <<>>
    /\ run = Constructed

FilterNews ==
    /\ op' = "filter_news"
    /\ ret' = filter_news(config, arg)
    /\ UNCHANGED <<config, news_items, arg, run>>

NextFilter == FilterNews

SpecFilter == InitFilter /\ [][NextFilter]_vars

\* the four checks of the filter, each on its own
TitleBlacklistPasses(news) ==
    ~\E keyword \in config.title_blacklist : Contains(news.title[1], keyword)

SourceBlacklistPasses(news) ==
    ~\E keyword \in config.source_blacklist :
        Contains(Get(news.source, <<>>), keyword)

TitleLengthPasses(news) ==
    /\ Get(config.min_title_length, DefaultMinTitleLength) <= Len(news.title[1])
    /\ Len(news.title[1]) <= Get(config.max_title_length, DefaultMaxTitleLength)

SummaryLengthPasses(news) ==
    /\ Get(config.min_summary_length, DefaultMinSummaryLength) <= Len(news.summary[1])
    /\ Len(news.summary[1]) <= Get(config.max_summary_length, DefaultMaxSummaryLength)

AllChecksPass(news) ==
    /\ TitleBlacklistPasses(news) /\ SourceBlacklistPasses(news)
    /\ TitleLengthPasses(news) /\ SummaryLengthPasses(news)

\* C10: filter_news returns true if and only if the four checks all pass
\* (no title-blacklist word in the title, no source-blacklist word in the
\* source, title length and summary length within their inclusive bounds);
\* on a record with a title and a summary it returns false as soon as any one
\* of them fails, whatever the other three say.
C10_AcceptsIffAllChecksPass ==
    op = "filter_news" =>
        /\ ret = <<TRUE>> <=>
              (arg.title # <<>> /\ arg.summary # <<>> /\ AllChecksPass(arg))
        /\ (arg.title # <<>> /\ arg.summary # <<>>) => ret = <<AllChecksPass(arg)>>

\* C10 witness: a record rejected by the source blacklist alone: the other
\* three checks pass, the title and summary lengths sitting on their bounds.
C10_Witness ==
    /\ op = "filter_news"
    /\ arg.title # <<>> /\ arg.summary # <<>>
    /\ TitleBlacklistPasses(arg) /\ TitleLengthPasses(arg) /\ SummaryLengthPasses(arg)
    /\ ~SourceBlacklistPasses(arg)
    /\ Len(arg.title[1]) = Get(config.max_title_length, DefaultMaxTitleLength)
    /\ Len(arg.summary[1]) = Get(config.min_summary_length, DefaultMinSummaryLength)
    /\ ret = <<FALSE>>

\* C11: filter_news is total: on every raw record, also one without a
\* summary or without a title, it returns a boolean and raises nothing.
C11_FilterTotal ==
    op = "filter_news" => ret \in {<<TRUE>>, <<FALSE>>}

----------------------------------------------------------------------------
(* src/xueqiu_simple_analyzer.py: clean_text (the text normalisation; the  *)
(* clean_text of src/xueqiu_comment_analyzer.py:128-142 is the same code)  *)

\* the most pieces concatenated into a text given to clean_text or to
\* analyze_sentiment
MaxPieces == 3

AsciiLetters ==
    {"a", "b", "c", "d", "e", "f", "g", "h", "i", "j", "k", "l", "m",
     "n", "o", "p", "q", "r", "s", "t", "u", "v", "w", "x", "y", "z",
     "A", "B", "C", "D", "E", "F", "G", "H", "I", "J", "K", "L", "M",
     "N", "O", "P", "Q", "R", "S", "T", "U", "V", "W", "X", "Y", "Z"}

AsciiDigits == {"0", "1", "2", "3", "4", "5", "6", "7", "8", "9"}

\* the characters of the range \u4e00-\u9fa5 that occur in the model's texts
CjkChars == {"u4e2d", "u6da8", "u8dcc", "u79d1", "u6280"}

\* the characters the pattern \s matches that occur in the model's texts
WhitespaceChars == {" ", "\n", "\t"}

\* the punctuation of the character class [$-_]: the code points from
\* '$' (0x24) to '_' (0x5F) that are neither letters nor digits
DollarToUnderscore ==
    {"$", "%", "&", "'", "(", ")", "*", "+", ",", "-", ".", "/", ":", ";",
     "<", "=", ">", "?", "@", "[", "\\", "]", "^", "_"}

\* one character of the URL body: [a-zA-Z] | [0-9] | [$-_@.&+] | [!*\\(\\),]
\* (the alternative %XX is made of characters of these classes)
UrlChar(c) ==
    \/ c \in AsciiLetters
    \/ c \in AsciiDigits
    \/ c \in DollarToUnderscore \cup {"@", ".", "&", "+"}
    \/ c \in {"!", "*", "\\", "(", ")", ","}

\* the index of the first c in t at or after position from, 0 when none
FirstIndexFrom(t, c, from) ==
    IF \E j \in from..Len(t) : t[j] = c
    THEN CHOOSE j \in from..Len(t) :
            t[j] = c /\ \A k \in from..(j - 1) : t[k] # c
    ELSE 0

\* re.sub(r'<[^>]+>', '', text): scanning from the left, a '<' followed by
\* at least one character other than '>' and then a '>' is removed with
\* everything in between
RECURSIVE RemoveTags(_)
RemoveTags(t) ==
    IF t = <<>> THEN <<>>
    ELSE LET close == FirstIndexFrom(t, ">", 2)
         IN  IF t[1] = "<" /\ close >= 3
             THEN RemoveTags(SubSeq(t, close + 1, Len(t)))
             ELSE <<t[1]>> \o RemoveTags(Tail(t))

\* t has the text k at position i
HasAt(t, k, i) ==
    /\ i + Len(k) - 1 <= Len(t)
    /\ \A j \in 1..Len(k) : t[i + j - 1] = k[j]

\* the length of the scheme http[s]?:// at the start of t, 0 when t does
\* not start with one
UrlSchemeLen(t) ==
    IF HasAt(t, <<"h", "t", "t", "p", "s", ":", "/", "/">>, 1) THEN 8
    ELSE IF HasAt(t, <<"h", "t", "t", "p", ":", "/", "/">>, 1) THEN 7
    ELSE 0

\* the number of URL body characters of t from position from on (the greedy +)
RECURSIVE UrlRunLen(_, _)
UrlRunLen(t, from) ==
    IF from <= Len(t) /\ UrlChar(t[from]) THEN 1 + UrlRunLen(t, from + 1)
    ELSE 0

\* re.sub(r'http[s]?://(?:...)+', '', text): a scheme followed by at least
\* one URL body character is removed with its whole run of body characters
RECURSIVE RemoveUrls(_)
RemoveUrls(t) ==
    IF t = <<>> THEN <<>>
    ELSE LET scheme == UrlSchemeLen(t)
             body   == UrlRunLen(t, scheme + 1)
         IN  IF scheme > 0 /\ body > 0
             THEN RemoveUrls(SubSeq(t, scheme + body + 1, Len(t)))
             ELSE <<t[1]>> \o RemoveUrls(Tail(t))

\* the characters that [^\u4e00-\u9fa5a-zA-Z0-9\s] does not match
KeptChar(c) ==
    c \in CjkChars \cup AsciiLetters \cup AsciiDigits \cup WhitespaceChars

\* re.sub(r'[^\u4e00-\u9fa5a-zA-Z0-9\s]', '', text)
RemoveSpecialChars(t) == SelectSeq(t, KeptChar)

\* re.sub(r'\s+', ' ', text): every run of whitespace becomes one space
RECURSIVE CollapseWhitespace(_)
CollapseWhitespace(t) ==
    IF t = <<>> THEN <<>>
    ELSE IF t[1] \in WhitespaceChars
         THEN IF Len(t) >= 2 /\ t[2] \in WhitespaceChars
              THEN CollapseWhitespace(Tail(t))
              ELSE <<" ">> \o CollapseWhitespace(Tail(t))
         ELSE <<t[1]>> \o CollapseWhitespace(Tail(t))

\* str.strip(): leading and trailing whitespace removed
RECURSIVE Strip(_)
Strip(t) ==
    IF t = <<>> THEN <<>>
    ELSE IF t[1] \in WhitespaceChars THEN Strip(Tail(t))
    ELSE IF t[Len(t)] \in WhitespaceChars THEN Strip(SubSeq(t, 1, Len(t) - 1))
    ELSE t

\* clean_text with the whitespace pass made before the removal of the
\* special characters (passes 3 and 4 exchanged)
clean_text_collapse_first(text) ==
    IF text = <<>> THEN <<>>
    ELSE RemoveSpecialChars(
             Strip(CollapseWhitespace(RemoveUrls(RemoveTags(text)))))

\* clean_text: the empty text stays empty; otherwise tags, then URLs, then
\* special characters are removed, then whitespace is collapsed and trimmed
clean_text(text) ==
    IF text = <<>> THEN <<>>
    ELSE Strip(CollapseWhitespace(
             RemoveSpecialChars(RemoveUrls(RemoveTags(text)))))

----------------------------------------------------------------------------
(* Texts given to clean_text, and the specification that applies it twice *)

\* the pieces the texts are built of: tag brackets, a whole tag, URL schemes,
\* a letter, whitespace, punctuation (inside and outside the URL body
\* class), a CJK character and a full-width character outside the CJK range
CleanPieces ==
    { <<"<">>, <<">">>, <<"<", "b", ">">>,
      <<"h", "t", "t", "p", ":", "/", "/">>,
      <<"h", "t", "t", "p", "s", ":", "/", "/">>,
      <<"a">>, <<" ">>, <<"\n">>, <<"!">>, <<"#">>, <<"u4e2d">>, <<"uff01">> }

\* the texts made of at most n of the given pieces
RECURSIVE PiecesUpTo(_, _)
PiecesUpTo(pieces, n) ==
    IF n = 0 THEN { <<>> }
    ELSE LET shorter == PiecesUpTo(pieces, n - 1)
         IN  shorter \cup {t \o p : t \in shorter, p \in pieces}

CleanTexts == PiecesUpTo(CleanPieces, MaxPieces)

InitNormalize ==
    /\ config = DefaultConfig
    /\ news_items = <<>>
    /\ op = "init"
    /\ \E t \in CleanTexts : arg = [text |-> t, raw |-> t, pass |-> 0]
    /\ ret = <<>>
    /\ run = Constructed

\* clean_text(text); the second call is made on the result of the first,
\* arg.raw keeps the text the first call was given
CleanText ==
    /\ arg.pass < 2
    /\ op' = "clean_text"
    /\ arg' = [text |-> IF arg.pass = 0 THEN arg.text ELSE ret,
               raw  |-> arg.raw,
               pass |-> arg.pass + 1]
    /\ ret' = clean_text(arg'.text)
    /\ UNCHANGED <<config, news_items, run>>

NextNormalize == CleanText

SpecNormalize == InitNormalize /\ [][NextNormalize]_vars

\* C12: clean_text is idempotent: applied to its own result it returns that
\* result unchanged, for every text.
C12_NormalizeIdempotent ==
    (op = "clean_text" /\ arg.pass = 2) => ret = arg.text

\* a second pass has been made on the non-empty result of a text that held
\* a tag, a URL, a special character and surplus whitespace
C12_Witness ==
    /\ op = "clean_text" /\ arg.pass = 2
    /\ ret = arg.text
    /\ ret # <<>>
    /\ ret # arg.raw
    /\ Contains(arg.raw, <<"<", "b", ">">>)
    /\ \/ Contains(arg.raw, <<"h", "t", "t", "p", ":", "/", "/", "a">>)
       \/ Contains(arg.raw, <<"!">>)
       \/ Contains(arg.raw, <<" ", " ">>)

----------------------------------------------------------------------------
(* src/xueqiu_simple_analyzer.py and src/xueqiu_demo.py: analyze_sentiment *)

\* the three labels returned (optimistic, pessimistic, neutral)
SentimentPositive == <<"u4e50", "u89c2">>
SentimentNegative == <<"u60b2", "u89c2">>
SentimentNeutral  == <<"u4e2d", "u6027">>

\* src/xueqiu_simple_analyzer.py:147-148
simple_positive_words ==
    << <<"u6da8">>, <<"u597d">>, <<"u770b", "u597d">>,
       <<"u4e70", "u5165">>, <<"u6301", "u6709">>, <<"u4e50", "u89c2">>,
       <<"u673a", "u4f1a">>, <<"u5229", "u597d">>, <<"u7a81", "u7834">>,
       <<"u5f3a", "u52bf">> >>

simple_negative_words ==
    << <<"u8dcc">>, <<"u4e0d", "u597d">>, <<"u770b", "u7a7a">>,
       <<"u5356", "u51fa">>, <<"u60b2", "u89c2">>, <<"u98ce", "u9669">>,
       <<"u5229", "u7a7a">>, <<"u7834", "u4f4d">>, <<"u5f31", "u52bf">>,
       <<"u5272", "u8089">> >>

\* src/xueqiu_demo.py:116-117
demo_positive_words ==
    << <<"u6da8">>, <<"u597d">>, <<"u770b", "u597d">>,
       <<"u4e70", "u5165">>, <<"u6301", "u6709">>, <<"u4e50", "u89c2">>,
       <<"u673a", "u4f1a">>, <<"u5229", "u597d">>, <<"u7a81", "u7834">>,
       <<"u5f3a", "u52bf">>, <<"u9f99", "u5934">>, <<"u4ef7", "u503c">>,
       <<"u589e", "u957f">> >>

demo_negative_words ==
    << <<"u8dcc">>, <<"u4e0d", "u597d">>, <<"u770b", "u7a7a">>,
       <<"u5356", "u51fa">>, <<"u60b2", "u89c2">>, <<"u98ce", "u9669">>,
       <<"u5229", "u7a7a">>, <<"u7834", "u4f4d">>, <<"u5f31", "u52bf">>,
       <<"u5272", "u8089">>, <<"u8c03", "u6574">>, <<"u4e0b", "u8dcc">> >>

\* sum(1 for word in words if word in text): one for every entry of the
\* list that occurs in the text, however often it occurs
RECURSIVE CountWordsIn(_, _)
CountWordsIn(words, text) ==
    IF words = <<>> THEN 0
    ELSE (IF Contains(text, Head(words)) THEN 1 ELSE 0)
         + CountWordsIn(Tail(words), text)

\* the comparison of the two counts, with a tie counted as optimistic
SentimentOfTiePositive(positive_words, negative_words, text) ==
    LET text_lower     == Lower(text)
        positive_count == CountWordsIn(positive_words, text_lower)
        negative_count == CountWordsIn(negative_words, text_lower)
    IN  IF positive_count >= negative_count THEN SentimentPositive
        ELSE SentimentNegative

\* the body shared by the two analyze_sentiment functions: the text is
\* lower-cased, the words of each list found in it are counted, and the
\* counts are compared
SentimentOf(positive_words, negative_words, text) ==
    LET text_lower     == Lower(text)
        positive_count == CountWordsIn(positive_words, text_lower)
        negative_count == CountWordsIn(negative_words, text_lower)
    IN  IF positive_count > negative_count THEN SentimentPositive
        ELSE IF negative_count > positive_count THEN SentimentNegative
        ELSE SentimentNeutral

\* XueqiuSimpleAnalyzer.analyze_sentiment
analyze_sentiment(text) ==
    SentimentOf(simple_positive_words, simple_negative_words, text)

\* XueqiuDemoAnalyzer.analyze_sentiment
demo_analyze_sentiment(text) ==
    SentimentOf(demo_positive_words, demo_negative_words, text)

----------------------------------------------------------------------------
(* Texts given to analyze_sentiment, and its specification *)

\* words of both lists, also the characters of a negative word that holds
\* a word of a list (u4e0d u597d holds the positive u597d, u4e0b u8dcc
\* the negative u8dcc), words of the longer lists only, and characters of
\* no list
SentimentPieces ==
    { <<"u6da8">>, <<"u597d">>, <<"u4e0d">>, <<"u8dcc">>, <<"u4e0b">>,
      <<"u98ce", "u9669">>, <<"u9f99", "u5934">>, <<"u8c03", "u6574">>,
      <<"A">>, <<" ">> }

SentimentTexts == PiecesUpTo(SentimentPieces, MaxPieces)

InitSentiment ==
    /\ config = DefaultConfig
    /\ news_items = <<>>
    /\ op = "init"
    /\ \E t \in SentimentTexts : arg = [text |-> t]
    /\ ret = <<>>
    /\ run = Constructed

AnalyzeSentiment ==
    /\ op' = "analyze_sentiment"
    /\ ret' = analyze_sentiment(arg.text)
    /\ UNCHANGED <<config, news_items, arg, run>>

DemoAnalyzeSentiment ==
    /\ op' = "demo_analyze_sentiment"
    /\ ret' = demo_analyze_sentiment(arg.text)
    /\ UNCHANGED <<config, news_items, arg, run>>

NextSentiment == AnalyzeSentiment \/ DemoAnalyzeSentiment

SpecSentiment == InitSentiment /\ [][NextSentiment]_vars

\* the number of words of a list found in the text
FoundIn(words, text) ==
    Cardinality({i \in 1..Len(words) : Contains(text, words[i])})

\* the label for a positive and a negative count
LabelFor(positive, negative, label) ==
    /\ label \in {SentimentPositive, SentimentNegative, SentimentNeutral}
    /\ label = SentimentPositive <=> positive > negative
    /\ label = SentimentNegative <=> negative > positive
    /\ label = SentimentNeutral <=> positive = negative

\* C20: analyze_sentiment returns exactly one of the three labels: optimistic
\* when more positive than negative keywords are found in the text,
\* pessimistic when more negative than positive ones are found, neutral on a
\* tie (also when none is found).
C20_SentimentByCounts ==
    /\ op = "analyze_sentiment" =>
           LabelFor(FoundIn(simple_positive_words, arg.text),
                    FoundIn(simple_negative_words, arg.text), ret)
    /\ op = "demo_analyze_sentiment" =>
           LabelFor(FoundIn(demo_positive_words, arg.text),
                    FoundIn(demo_negative_words, arg.text), ret)

\* a tie of one against one on a text that holds the negative word
\* u4e0d u597d, and with it the positive word u597d: the text is neutral
C20_Witness ==
    /\ op = "analyze_sentiment"
    /\ Contains(arg.text, <<"u4e0d", "u597d">>)
    /\ FoundIn(simple_positive_words, arg.text) = 1
    /\ FoundIn(simple_negative_words, arg.text) = 1
    /\ ret = SentimentNeutral

----------------------------------------------------------------------------
(* Configurations of a whole run: rules, sources and outputs *)

\* the names of the configured sources: two feeds and a page
SourceW == <<"w">>

\* the rules of the runs: one configured category, a critical keyword, a
\* title blacklist, a source blacklist that holds the name of the second
\* feed, length bounds that short texts can meet, and a news count that the
\* feeds of the model can exceed
RunRules ==
    [DefaultConfig EXCEPT
        !.categories = << [name |-> CategoryValue("ECONOMY"),
                           keywords |-> {TitleA}] >>,
        !.critical_keywords = {TitleB},
        !.title_blacklist = {BlacklistedTitleWord},
        !.source_blacklist = {SourceY},
        !.min_title_length = <<1>>, !.max_title_length = <<3>>,
        !.min_summary_length = <<1>>, !.max_summary_length = <<3>>,
        !.max_news_count = <<3>>]

\* two RSS sources, the second enabled or disabled; no or one web source;
\* the text output enabled by default or disabled, the JSON output enabled by
\* default, the HTML output disabled by default or enabled
RunConfigs ==
    { [RunRules EXCEPT
          !.rss_sources = << [name |-> SourceX, enabled |-> <<>>],
                             [name |-> SourceY, enabled |-> second] >>,
          !.web_sources = web,
          !.txt_enabled = txt,
          !.html_enabled = html] :
        second \in {<<TRUE>>, <<FALSE>>},
        web \in { <<>>, << [name |-> SourceW, enabled |-> <<>>] >> },
        txt \in {<<>>, <<FALSE>>},
        html \in {<<>>, <<TRUE>>} }

----------------------------------------------------------------------------
(* src/news_manager.py: construction of the manager from a configuration   *)
(* file                                                                    *)

\* NewsManager.load_config.  The file is missing (open raises
\* FileNotFoundError, the only exception caught: the defaults are returned),
\* or holds a mapping (yaml.safe_load returns it), or is empty
\* (yaml.safe_load returns None), or cannot be parsed (yaml.safe_load raises
\* yaml.YAMLError, which is not caught).  value is <<>> for None.
load_config(file) ==
    CASE file.kind = "missing"   -> [raised |-> <<>>, value |-> <<DefaultConfig>>]
      [] file.kind = "mapping"   -> [raised |-> <<>>, value |-> file.document]
      [] file.kind = "empty"     -> [raised |-> <<>>, value |-> <<>>]
      [] file.kind = "malformed" -> [raised |-> <<"YAMLError">>, value |-> <<>>]

\* NewsManager.setup_logging: self.config.get('logging', {}) raises
\* AttributeError when self.config is None
setup_logging(loaded_config) ==
    IF loaded_config = <<>> THEN <<"AttributeError">> ELSE <<>>

\* the position of a manager that is about to be constructed
NotConstructed == [Constructed EXCEPT !.pc = "new"]

\* the configuration files: missing, empty, unparseable, or holding one of
\* the configurations of the other specifications
ConfigFiles ==
    { [kind |-> k, document |-> <<>>] : k \in {"missing", "empty", "malformed"} }
    \cup { [kind |-> "mapping", document |-> <<d>>] :
             d \in ScoreConfigs \cup FilterConfigs \cup RunConfigs }

\* before NewsManager(config_file): the file is given; config holds the
\* defaults until load_config returns a document
InitConstruct ==
    /\ config = DefaultConfig
    /\ news_items = <<>>
    /\ op = "init"
    /\ \E file \in ConfigFiles : arg = [config_file |-> file]
    /\ ret = <<>>
    /\ run = NotConstructed

\* NewsManager.__init__: load_config, NewsDigest(), setup_logging; an
\* exception of either leaves no manager (pc "raised")
Construct ==
    /\ run.pc = "new"
    /\ LET loaded == load_config(arg.config_file)
           error  == IF loaded.raised # <<>> THEN loaded.raised
                     ELSE setup_logging(loaded.value)
       IN  /\ config' = IF loaded.value # <<>> THEN loaded.value[1] ELSE config
           /\ run' = [run EXCEPT !.pc = IF error = <<>> THEN "constructed"
                                        ELSE "raised",
                                 !.error = error]
    /\ news_items' = <<>>
    /\ op' = "__init__"
    /\ ret' = <<>>
    /\ UNCHANGED arg

NextConstruct == Construct

SpecConstruct == InitConstruct /\ [][NextConstruct]_vars

\* C16: loading the configuration never fails: with the file missing,
\* unparseable or empty the manager is constructed with the default
\* configuration (and with a file that holds a mapping, with that mapping).
C16_ConfigFallback ==
    op = "__init__" =>
        /\ run.pc = "constructed"
        /\ arg.config_file.kind # "mapping" => config = DefaultConfig

----------------------------------------------------------------------------
(* src/news_manager.py: run, fetch_news, the fetchers, process_news_list,  *)
(* generate_outputs                                                        *)

\* the most entries a remote source answers with
MaxFeed == 2

\* feed.entries[:10] and containers[:10]
FetchCap == 10

\* what the fetchers fill in besides title and summary
FeedTitle == <<"f">>
Netloc == <<"n">>
EntryLink == <<"/", "l">>

\* fetch_rss_news without the try: the entries before the first one that
\* has no title are returned
fetch_rss_news_partial(outcome) ==
    LET entries == SliceTo(outcome.entries, FetchCap)
        good    == {n \in 0..Len(entries) :
                       \A i \in 1..n : entries[i].title # <<>>}
        n       == CHOOSE m \in good : \A k \in good : k <= m
    IN  IF outcome.failed THEN <<>>
        ELSE [i \in 1..n |->
                [title |-> entries[i].title,
                 summary |-> <<Get(entries[i].summary, <<>>)>>,
                 url |-> <<EntryLink>>,
                 publish_time |-> <<<<>>>>,
                 source |-> <<FeedTitle>>]]

\* NewsManager.fetch_rss_news on what the remote feed answers: a failure of
\* the request, or an entry without a title among the first ten (the
\* AttributeError of entry.title), is caught and gives the empty list;
\* otherwise one record for each of the first ten entries, the summary ''
\* when the entry has none
fetch_rss_news(outcome) ==
    LET entries == SliceTo(outcome.entries, FetchCap)
    IN  IF outcome.failed \/ \E i \in 1..Len(entries) : entries[i].title = <<>>
        THEN <<>>
        ELSE [i \in 1..Len(entries) |->
                [title |-> entries[i].title,
                 summary |-> <<Get(entries[i].summary, <<>>)>>,
                 url |-> <<EntryLink>>,
                 publish_time |-> <<<<>>>>,
                 source |-> <<FeedTitle>>]]

\* NewsManager.fetch_web_news on what the page answers: a failure of the
\* request is caught and gives the empty list; otherwise one record for each
\* of the first ten containers that has a non-empty title, with a summary
\* only when the container has one
fetch_web_news(outcome) ==
    IF outcome.failed THEN <<>>
    ELSE LET containers == SliceTo(outcome.entries, FetchCap)
             titled == SelectSeq(containers,
                           LAMBDA c : c.title # <<>> /\ c.title[1] # <<>>)
         IN  [i \in 1..Len(titled) |->
                 [title |-> titled[i].title,
                  summary |-> titled[i].summary,
                  url |-> <<EntryLink>>,
                  publish_time |-> <<>>,
                  source |-> <<Netloc>>]]

\* process_news_list walking the list from its end
RECURSIVE process_news_list_last_first(_, _, _, _)
process_news_list_last_first(cfg, items, news_list, source_name) ==
    IF news_list = <<>> THEN [items |-> items, error |-> <<>>]
    ELSE LET news     == news_list[Len(news_list)]
             rest     == SubSeq(news_list, 1, Len(news_list) - 1)
             accepted == filter_news(cfg, news)
         IN  IF accepted = <<>> THEN [items |-> items, error |-> <<"KeyError">>]
             ELSE IF ~accepted[1]
             THEN process_news_list_last_first(cfg, items, rest, source_name)
             ELSE process_news_list_last_first(
                      cfg,
                      add_news(items,
                          NewsItem(news.title[1], news.summary[1],
                                   auto_categorize(cfg, news.title[1],
                                                   news.summary[1]),
                                   source_name,
                                   Get(news.url, <<>>),
                                   Get(news.publish_time, <<>>),
                                   determine_importance(cfg, news.title[1],
                                       news.summary[1], source_name))),
                      rest, source_name)

\* NewsManager.process_news_list: every record that filter_news accepts is
\* classified, scored and added with the source name of the configuration; a
\* KeyError of filter_news ends the loop and propagates, the items added
\* before it stay in the Digest
RECURSIVE process_news_list(_, _, _, _)
process_news_list(cfg, items, news_list, source_name) ==
    IF news_list = <<>> THEN [items |-> items, error |-> <<>>]
    ELSE LET news     == Head(news_list)
             accepted == filter_news(cfg, news)
         IN  IF accepted = <<>> THEN [items |-> items, error |-> <<"KeyError">>]
             ELSE IF ~accepted[1]
             THEN process_news_list(cfg, items, Tail(news_list), source_name)
             ELSE process_news_list(
                      cfg,
                      add_news(items,
                          NewsItem(news.title[1], news.summary[1],
                                   auto_categorize(cfg, news.title[1],
                                                   news.summary[1]),
                                   source_name,
                                   Get(news.url, <<>>),
                                   Get(news.publish_time, <<>>),
                                   determine_importance(cfg, news.title[1],
                                       news.summary[1], source_name))),
                      Tail(news_list), source_name)

\* generate_outputs with the FileNotFoundError of the template not caught
generate_outputs_template_uncaught(cfg, template_exists) ==
    LET html == Get(cfg.html_enabled, FALSE)
    IN  [outputs |-> (IF Get(cfg.txt_enabled, TRUE) THEN {"txt"} ELSE {})
                     \cup (IF Get(cfg.json_enabled, TRUE) THEN {"json"} ELSE {})
                     \cup (IF html /\ template_exists THEN {"html"} ELSE {}),
         error |-> IF html /\ ~template_exists THEN <<"FileNotFoundError">>
                   ELSE <<>>]

\* NewsManager.generate_outputs: the text format (enabled unless disabled),
\* the JSON format (the same), the HTML format (only when enabled); the
\* HTML format returns early, without a file, when its template is missing
generate_outputs(cfg, template_exists) ==
    [outputs |-> (IF Get(cfg.txt_enabled, TRUE) THEN {"txt"} ELSE {})
                 \cup (IF Get(cfg.json_enabled, TRUE) THEN {"json"} ELSE {})
                 \cup (IF Get(cfg.html_enabled, FALSE) /\ template_exists
                       THEN {"html"} ELSE {}),
     error |-> <<>>]

\* the sources of the loop the run is in
SourcesAt(cfg, pc) ==
    IF pc = "fetch_rss" THEN cfg.rss_sources ELSE cfg.web_sources

\* where fetch_news is when a loop begins: at the first source of the loop,
\* or at the next loop when there is none, or at its end
LoopStart(cfg, pc) ==
    IF pc = "fetch_rss" /\ cfg.rss_sources # <<>> THEN [pc |-> "fetch_rss", next |-> 1]
    ELSE IF pc \in {"fetch_rss", "fetch_web"} /\ cfg.web_sources # <<>>
    THEN [pc |-> "fetch_web", next |-> 1]
    ELSE [pc |-> "outputs", next |-> 0]

\* a loop that does not move on from the source it has visited
AfterSourceSame(cfg, pc, next) ==
    [pc |-> pc, next |-> next]

\* where fetch_news is after the source at `next` of the loop `pc`
AfterSource(cfg, pc, next) ==
    IF next < Len(SourcesAt(cfg, pc)) THEN [pc |-> pc, next |-> next + 1]
    ELSE IF pc = "fetch_rss" THEN LoopStart(cfg, "fetch_web")
    ELSE [pc |-> "outputs", next |-> 0]

\* a summary that is a markup tag
MarkupSummary == <<"<", "b", ">">>

\* what a remote source answers with: entries with title and summary, with
\* a summary that is markup, with a title and no summary, with no title
FetchedEntries ==
    { [title |-> <<TitleA>>, summary |-> <<SummaryS>>],
      [title |-> <<TitleA>>, summary |-> <<MarkupSummary>>],
      [title |-> <<TitleB>>, summary |-> <<>>],
      [title |-> <<>>, summary |-> <<SummaryS>>] }

\* the request fails, or it succeeds with up to MaxFeed entries
FetchOutcomes ==
    { [failed |-> TRUE, entries |-> <<>>] }
    \cup { [failed |-> FALSE, entries |-> es] :
             es \in UNION { [1..n -> FetchedEntries] : n \in 0..MaxFeed } }

\* the configurations of the runs: every choice of sources with the
\* outputs as they are by default, and every choice of outputs with a
\* feed, a disabled feed and a page
RunCases ==
    { c \in RunConfigs :
        \/ c.txt_enabled = <<>> /\ c.html_enabled = <<>>
        \/ c.rss_sources[2].enabled = <<FALSE>> /\ c.web_sources # <<>> }

InitRun ==
    /\ config \in RunCases
    /\ news_items = <<>>
    /\ op = "init"
    /\ arg = <<>>
    /\ ret = <<>>
    /\ run = Constructed

\* NewsManager.run is called: fetch_news begins on the Digest the manager
\* holds
Run ==
    /\ run.pc = "constructed"
    /\ run' = [run EXCEPT !.pc = LoopStart(config, "fetch_rss").pc,
                          !.next = LoopStart(config, "fetch_rss").next,
                          !.runs = 1,
                          !.kept = Len(news_items)]
    /\ op' = "run"
    /\ arg' = <<>>
    /\ ret' = <<>>
    /\ UNCHANGED <<config, news_items>>

\* one turn of a loop of fetch_news, on a source that the named fetcher
\* reads: a disabled source is passed over; an enabled one is fetched and
\* its records are processed; an exception of the processing leaves
\* fetch_news and run
VisitSource(pc, fetch_name) ==
    /\ LET source == SourcesAt(config, pc)[run.next]
           after  == AfterSource(config, pc, run.next)
       IN  \/ /\ ~Get(source.enabled, TRUE)
              /\ op' = "skip_source"
              /\ arg' = [source |-> source.name]
              /\ ret' = <<>>
              /\ run' = [run EXCEPT !.pc = after.pc, !.next = after.next]
              /\ UNCHANGED news_items
           \/ /\ Get(source.enabled, TRUE)
              /\ \E outcome \in FetchOutcomes :
                    LET news_list == IF fetch_name = "fetch_rss_news"
                                     THEN fetch_rss_news(outcome)
                                     ELSE fetch_web_news(outcome)
                        processed == process_news_list(config, news_items,
                                         news_list, source.name)
                    IN  /\ op' = fetch_name
                        /\ arg' = [source |-> source.name, outcome |-> outcome]
                        /\ ret' = news_list
                        /\ news_items' = processed.items
                        /\ run' = IF processed.error # <<>>
                                  THEN [run EXCEPT !.pc = "raised",
                                                   !.error = processed.error]
                                  ELSE [run EXCEPT !.pc = after.pc,
                                                   !.next = after.next]
    /\ UNCHANGED config

\* the loop over the RSS sources
VisitRss ==
    /\ run.pc = "fetch_rss"
    /\ VisitSource("fetch_rss", "fetch_rss_news")

\* the loop over the web sources
VisitWeb ==
    /\ run.pc = "fetch_web"
    /\ VisitSource("fetch_web", "fetch_web_news")

\* generate_outputs after fetch_news has returned, with the template file
\* present or not; run then prints the report and returns
GenerateOutputs ==
    /\ run.pc = "outputs"
    /\ \E template_exists \in BOOLEAN :
          LET generated == generate_outputs(config, template_exists)
          IN  /\ arg' = [template_exists |-> template_exists]
              /\ run' = [run EXCEPT
                            !.pc = IF generated.error # <<>> THEN "raised"
                                   ELSE "done",
                            !.outputs = generated.outputs,
                            !.error = generated.error]
    /\ op' = "generate_outputs"
    /\ ret' = <<>>
    /\ UNCHANGED <<config, news_items>>

NextRun == Run \/ VisitRss \/ VisitWeb \/ GenerateOutputs

SpecRun == InitRun /\ [][NextRun]_vars

\* the fetch of a source failed: the request failed or, for a feed, one of
\* the entries read has no title
FetchFailed(fetch_name, outcome) ==
    \/ outcome.failed
    \/ /\ fetch_name = "fetch_rss_news"
       /\ \E i \in 1..Min(FetchCap, Len(outcome.entries)) :
             outcome.entries[i].title = <<>>

\* C17: a source whose fetch fails contributes no item: the Digest is what
\* it was before that source, nothing is raised, and fetch_news goes on to
\* the next source of the loop (or to the next loop, or to its end).
C17_SourceIsolation ==
    [][(op' \in {"fetch_rss_news", "fetch_web_news"}
            /\ FetchFailed(op', arg'.outcome)) =>
          /\ ret' = <<>>
          /\ news_items' = news_items
          /\ run'.pc \in {"fetch_rss", "fetch_web", "outputs"}
          /\ run'.error = <<>>
          /\ [pc |-> run'.pc, next |-> run'.next]
                 = AfterSource(config, run.pc, run.next)]_vars

\* C17 witness: the second feed answered with a good entry and an entry
\* without a title; the items of the first feed are in the Digest, nothing
\* of the second is, and the web source is next.
C17_Witness ==
    /\ op = "fetch_rss_news"
    /\ arg.source = SourceY
    /\ ~arg.outcome.failed
    /\ Len(arg.outcome.entries) = 2
    /\ arg.outcome.entries[1].title # <<>>
    /\ arg.outcome.entries[1].summary # <<>>
    /\ arg.outcome.entries[2].title = <<>>
    /\ ret = <<>>
    /\ news_items # <<>>
    /\ \A i \in 1..Len(news_items) : news_items[i].source = SourceX
    /\ run.pc = "fetch_web"

\* C18: with the HTML format enabled and its template missing, only that
\* format is skipped: the text and JSON formats that are enabled are written,
\* and generate_outputs returns without raising.
C18_RenderingIsolation ==
    (op = "generate_outputs" /\ Get(config.html_enabled, FALSE)
         /\ ~arg.template_exists) =>
        /\ run.pc = "done"
        /\ run.error = <<>>
        /\ "html" \notin run.outputs
        /\ Get(config.txt_enabled, TRUE) => "txt" \in run.outputs
        /\ Get(config.json_enabled, TRUE) => "json" \in run.outputs

\* C18 witness: a run with items, all three formats enabled, the template
\* missing: the text and JSON outputs were written.
C18_Witness ==
    /\ op = "generate_outputs"
    /\ config.html_enabled = <<TRUE>>
    /\ ~arg.template_exists
    /\ news_items # <<>>
    /\ run.outputs = {"txt", "json"}
    /\ run.pc = "done"

\* C19: whatever the fetches answer and whatever records the fetchers hand
\* over, also records without a summary, no error ends the run: it goes on to
\* generate_outputs.
C19_RunReachesRendering ==
    run.pc # "raised"

----------------------------------------------------------------------------
(* The Digest under queries and renderings *)

\* the calls that read the Digest: the queries and the renderers
ReadingOps ==
    {"get_news_by_category", "get_top_news", "generate_digest", "export_json",
     "prepare_html_data"}

\* C27: only add changes the Digest.  Every query and every rendering, in
\* any order and number, leaves the list of items as it was (the same items
\* with the same fields in the same order), so the renderings of a Digest
\* all read the same contents; add appends its item.
C27_OnlyAddMutates ==
    [][/\ op' \in ReadingOps => news_items' = news_items
       /\ news_items' # news_items =>
             (op' = "add_news" /\ news_items' = Append(news_items, arg'))]_vars

\* C27 witness: a rendering of a Digest whose items are not in the order of
\* their importance: the Digest still holds them in the order they were
\* added.
C27_Witness ==
    /\ op = "generate_digest"
    /\ Len(news_items) = MaxItems
    /\ news_items[1].importance < news_items[2].importance
    /\ news_items[2].importance > news_items[3].importance

----------------------------------------------------------------------------
(* The order of a run: its phases, and the items of each source *)

\* the steps of fetch_news that visit a source and fetch it
FetchOps == {"fetch_rss_news", "fetch_web_news"}

\* the phases of a run in their order: the feeds, the pages, the rendering,
\* the end
PhaseRank(pc) ==
    CASE pc = "constructed" -> 0
      [] pc = "fetch_rss"   -> 1
      [] pc = "fetch_web"   -> 2
      [] pc = "outputs"     -> 3
      [] OTHER              -> 4

\* the run has moved forward: to a later phase, or to a later source of the
\* same loop
MovedForward(before, after) ==
    \/ PhaseRank(after.pc) > PhaseRank(before.pc)
    \/ /\ PhaseRank(after.pc) = PhaseRank(before.pc)
       /\ after.next > before.next

\* C22 as stated: the run does all its fetching, then all its processing,
\* then the rendering.  A source is fetched only while no item has been
\* processed into the Digest, and once rendering has begun nothing is fetched
\* or added.  (The Digest of a single run starts empty, so an item in it
\* means that processing has begun.)
C22_FetchThenProcessThenRender ==
    [][/\ op' \in FetchOps => news_items = <<>>
       /\ run.pc \in {"outputs", "done"} =>
             (op' \notin FetchOps /\ news_items' = news_items)
       /\ MovedForward(run, run')]_vars

\* C22 as it holds: fetching and processing alternate source by source.
\* The run only moves forward: the feeds in their configured order, then the
\* pages in theirs, then the rendering, then the end; a source is fetched
\* only in its loop, and what it hands over is processed in that turn of the
\* loop, so later sources are fetched when items are already in the Digest;
\* once rendering has begun nothing is fetched and nothing is filtered,
\* classified, scored or added.
C22_ForwardOnly ==
    [][/\ MovedForward(run, run')
       /\ op' = "fetch_rss_news" => run.pc = "fetch_rss"
       /\ op' = "fetch_web_news" => run.pc = "fetch_web"
       /\ op' \in FetchOps \cup {"skip_source"} =>
             \/ run'.pc = "raised"
             \/ [pc |-> run'.pc, next |-> run'.next]
                    = AfterSource(config, run.pc, run.next)
       /\ run.pc \in {"outputs", "done"} =>
             (op' \notin FetchOps \cup {"skip_source"}
              /\ news_items' = news_items)]_vars

\* C22 witness: a run that has ended after rendering a Digest with items of
\* the first feed, the second feed and the page: the later sources were
\* fetched after items of the earlier ones had been processed.
C22_Witness ==
    /\ run.pc = "done"
    /\ Len(news_items) = 3
    /\ news_items[1].source = SourceX
    /\ news_items[2].source = SourceY
    /\ news_items[3].source = SourceW

\* the records of a list that process_news_list reaches and filter_news
\* accepts, in the order of the list: the records before the first one that
\* makes filter_news raise
AcceptedInOrder(cfg, news_list) ==
    LET raising == {i \in 1..Len(news_list) : filter_news(cfg, news_list[i]) = <<>>}
        reached == IF raising = {} THEN news_list
                   ELSE SubSeq(news_list, 1,
                            (CHOOSE i \in raising : \A j \in raising : i <= j) - 1)
    IN  SelectSeq(reached, LAMBDA news : filter_news(cfg, news) = <<TRUE>>)

\* the items of one source lie together in the Digest
SourcesContiguous(items) ==
    \A i, k \in 1..Len(items) :
        (i < k /\ items[i].source = items[k].source) =>
            \A j \in i..k : items[j].source = items[i].source

\* C23: the visit of a source appends to the Digest, after everything that
\* was in it, one item for each record of that source that the filter
\* accepts, in the order of the source's records and under the source's
\* name; so the items of one source are never interleaved with those of
\* another.
C23_PerSourceFifo ==
    [][op' \in FetchOps =>
          LET accepted == AcceptedInOrder(config, ret')
              n        == Len(news_items)
          IN  /\ Len(news_items') = n + Len(accepted)
              /\ SubSeq(news_items', 1, n) = news_items
              /\ \A k \in 1..Len(accepted) :
                    /\ news_items'[n + k].title = accepted[k].title[1]
                    /\ news_items'[n + k].summary = accepted[k].summary[1]
                    /\ news_items'[n + k].source = arg'.source
              /\ SourcesContiguous(news_items')]_vars

\* C23 witness: the second feed handed over two accepted records with
\* different summaries; they follow the item of the first feed in the order
\* they had in the feed.
C23_Witness ==
    /\ op = "fetch_rss_news"
    /\ arg.source = SourceY
    /\ Len(ret) = 2
    /\ Len(news_items) = 3
    /\ news_items[1].source = SourceX
    /\ news_items[2].source = SourceY
    /\ news_items[2].summary = SummaryS
    /\ news_items[3].source = SourceY
    /\ news_items[3].summary = MarkupSummary

----------------------------------------------------------------------------
(* What the Digest of a run holds *)

\* C26: every item the pipeline stores has been normalized: its title and
\* its summary are texts that clean_text leaves as they are (a normalized
\* text is, clean_text being idempotent), so no markup tag, URL or other
\* non-linguistic character is left in a stored item.
C26_StoredItemsNormalized ==
    \A i \in 1..Len(news_items) :
        /\ news_items[i].title = clean_text(news_items[i].title)
        /\ news_items[i].summary = clean_text(news_items[i].summary)

\* C28: no item of the Digest has a source that contains a word of the
\* source blacklist.
C28_NoBlacklistedSourceStored ==
    \A i \in 1..Len(news_items) :
        \A keyword \in config.source_blacklist :
            ~Contains(news_items[i].source, keyword)

\* the names of the sources of a list that are enabled: 'enabled' is true
\* or absent
EnabledNames(sources) ==
    {sources[i].name : i \in {j \in 1..Len(sources) :
                                 Get(sources[j].enabled, TRUE)}}

\* the number of enabled sources of a configuration
EnabledCount(cfg) ==
    Cardinality({i \in 1..Len(cfg.rss_sources) :
                    Get(cfg.rss_sources[i].enabled, TRUE)})
    + Cardinality({i \in 1..Len(cfg.web_sources) :
                      Get(cfg.web_sources[i].enabled, TRUE)})

\* fetch_news has returned
FetchNewsReturned == run.pc \in {"outputs", "done"}

\* C29: after fetch_news every item of the Digest carries the name of an
\* enabled source (a disabled one is not fetched and adds nothing), and the
\* items of the RSS sources all come before the items of the web sources.
C29_EnabledSourcesRssFirst ==
    /\ op \in FetchOps =>
          arg.source \in EnabledNames(config.rss_sources)
                         \cup EnabledNames(config.web_sources)
    /\ FetchNewsReturned =>
          /\ \A i \in 1..Len(news_items) :
                news_items[i].source \in EnabledNames(config.rss_sources)
                                         \cup EnabledNames(config.web_sources)
          /\ \A i, j \in 1..Len(news_items) :
                (/\ news_items[i].source \in EnabledNames(config.web_sources)
                 /\ news_items[j].source \in EnabledNames(config.rss_sources))
                    => j < i

\* C30: a visit hands at most ten records to the processing, so after a
\* fetch_news that began on an empty Digest the Digest holds at most ten
\* items for each enabled source, and at most the configured
\* max_news_count (50 when the configuration has none).
C30_DigestSizeCapped ==
    /\ op \in FetchOps => Len(ret) <= FetchCap
    /\ (FetchNewsReturned /\ run.kept = 0) =>
          /\ Len(news_items) <= FetchCap * EnabledCount(config)
          /\ Len(news_items) <= Get(config.max_news_count, DefaultMaxNewsCount)

----------------------------------------------------------------------------
(* Several runs of one manager: run is called again after it has returned *)

\* the most calls of run on one manager
MaxRuns == 2

\* NewsManager.run is called on a manager whose earlier run has returned:
\* self.digest is the NewsDigest that __init__ created, with what the
\* earlier runs added to it
RunAgain ==
    /\ run.pc = "done"
    /\ run.runs < MaxRuns
    /\ run' = [run EXCEPT !.pc = LoopStart(config, "fetch_rss").pc,
                          !.next = LoopStart(config, "fetch_rss").next,
                          !.runs = @ + 1,
                          !.kept = Len(news_items)]
    /\ op' = "run"
    /\ arg' = <<>>
    /\ ret' = <<>>
    /\ UNCHANGED <<config, news_items>>

\* the configurations of the managers that run again: a feed, a disabled
\* feed and a page, the outputs as they are by default
RunsConfigs ==
    { c \in RunConfigs : /\ c.rss_sources[2].enabled = <<FALSE>>
                         /\ c.web_sources # <<>>
                         /\ c.txt_enabled = <<>>
                         /\ c.html_enabled = <<>> }

InitRuns ==
    /\ config \in RunsConfigs
    /\ news_items = <<>>
    /\ op = "init"
    /\ arg = <<>>
    /\ ret = <<>>
    /\ run = Constructed

NextRuns == Run \/ RunAgain \/ VisitRss \/ VisitWeb \/ GenerateOutputs

SpecRuns == InitRuns /\ [][NextRuns]_vars

\* C24: the Digest a run renders holds only items accepted during that run:
\* when generate_outputs renders, none of the items is one that was in the
\* Digest when the run began.
C24_OneDigestPerRun ==
    op = "generate_outputs" => run.kept = 0

----------------------------------------------------------------------------
(* src/news_crawler.py: NewsCrawler's fetchers and NewsAggregator.aggregate_news *)

\* NewsCrawler.get_rss_news: the code of NewsManager.fetch_rss_news
get_rss_news(outcome) == fetch_rss_news(outcome)

\* NewsCrawler.get_web_news: the code of NewsManager.fetch_web_news
get_web_news(outcome) == fetch_web_news(outcome)

\* the keys of NewsAggregator's news_sources, in the order of the dicts
aggregator_rss_sources ==
    << <<"p", "e", "o", "p", "l", "e">>, <<"x", "i", "n", "h", "u", "a">>,
       <<"c", "c", "t", "v">> >>
aggregator_web_sources == << <<"s", "i", "n", "a">> >>

\* the body of the loops of aggregate_news over one fetched list: every
\* record is classified, scored and added, with the source the fetcher put
\* on the record; news['summary'] of a record without a summary raises
\* KeyError, which ends the loop, the items added before it stay
RECURSIVE aggregate_news_list(_, _)
aggregate_news_list(items, news_list) ==
    IF news_list = <<>> THEN [items |-> items, error |-> <<>>]
    ELSE LET news == Head(news_list)
         IN  IF news.summary = <<>>
             THEN [items |-> items, error |-> <<"KeyError">>]
             ELSE aggregate_news_list(
                      add_news(items,
                          NewsItem(news.title[1], news.summary[1],
                                   categorize_news(news.title[1], news.summary[1]),
                                   news.source[1],
                                   Get(news.url, <<>>),
                                   Get(news.publish_time, <<>>),
                                   aggregator_determine_importance(
                                       news.title[1], news.summary[1],
                                       news.source[1]))),
                      Tail(news_list))

\* the sources of the loop aggregate_news is in
AggregatorSourcesAt(pc) ==
    IF pc = "aggregate_rss" THEN aggregator_rss_sources
    ELSE aggregator_web_sources

\* where aggregate_news is after the source at `next` of the loop `pc`
AfterAggregatorSource(pc, next) ==
    IF next < Len(AggregatorSourcesAt(pc)) THEN [pc |-> pc, next |-> next + 1]
    ELSE IF pc = "aggregate_rss" THEN [pc |-> "aggregate_web", next |-> 1]
    ELSE [pc |-> "aggregated", next |-> 0]

\* NewsAggregator(): a crawler, an empty Digest; the rules of the manager
\* are its defaults
InitAggregate ==
    /\ config = DefaultConfig
    /\ news_items = <<>>
    /\ op = "init"
    /\ arg = <<>>
    /\ ret = <<>>
    /\ run = Constructed

\* aggregate_news is called
AggregateNews ==
    /\ run.pc = "constructed"
    /\ run' = [run EXCEPT !.pc = "aggregate_rss", !.next = 1, !.runs = 1,
                          !.kept = Len(news_items)]
    /\ op' = "aggregate_news"
    /\ arg' = <<>>
    /\ ret' = <<>>
    /\ UNCHANGED <<config, news_items>>

\* one turn of a loop of aggregate_news: the source is fetched and its
\* records are added
AggregateSource(pc, fetch_name) ==
    /\ \E outcome \in FetchOutcomes :
          LET news_list == IF fetch_name = "get_rss_news"
                           THEN get_rss_news(outcome)
                           ELSE get_web_news(outcome)
              added     == aggregate_news_list(news_items, news_list)
              after     == AfterAggregatorSource(pc, run.next)
          IN  /\ op' = fetch_name
              /\ arg' = [source |-> AggregatorSourcesAt(pc)[run.next],
                         outcome |-> outcome]
              /\ ret' = news_list
              /\ news_items' = added.items
              /\ run' = IF added.error # <<>>
                        THEN [run EXCEPT !.pc = "raised", !.error = added.error]
                        ELSE [run EXCEPT !.pc = after.pc, !.next = after.next]
    /\ UNCHANGED config

AggregateRss ==
    /\ run.pc = "aggregate_rss"
    /\ AggregateSource("aggregate_rss", "get_rss_news")

AggregateWeb ==
    /\ run.pc = "aggregate_web"
    /\ AggregateSource("aggregate_web", "get_web_news")

NextAggregate == AggregateNews \/ AggregateRss \/ AggregateWeb

SpecAggregate == InitAggregate /\ [][NextAggregate]_vars

\* the steps of either pipeline that fetch a source and add its records
PipelineFetchOps == FetchOps \cup {"get_rss_news", "get_web_news"}

\* C25: every item that enters the Digest was accepted by the filter first:
\* each item a visit adds comes from a record of that visit for which
\* filter_news returned true, and no more items are added than records were
\* accepted, so a rejected record adds nothing.
C25_FilteredBeforeAdded ==
    [][op' \in PipelineFetchOps =>
          LET accepted == SelectSeq(ret',
                              LAMBDA news : filter_news(config, news) = <<TRUE>>)
              n        == Len(news_items)
          IN  /\ Len(news_items') <= n + Len(accepted)
              /\ \A k \in (n + 1)..Len(news_items') :
                    \E i \in 1..Len(accepted) :
                        /\ news_items'[k].title = accepted[i].title[1]
                        /\ news_items'[k].summary = accepted[i].summary[1]]_vars

----------------------------------------------------------------------------
(* src/xueqiu_comment_analyzer.py: analyze_comments_with_ai, extract_keywords, *)
(* run_analysis                                                            *)

\* the most comments of the first topic
MaxComments == 2

\* a dict that is an error value: only the key 'error'
ErrorValue(kind) ==
    [error |-> <<kind>>, analysis |-> <<>>,
     comment_count |-> <<>>, valid_comment_count |-> <<>>]

\* the cleaned texts of the comments that are longer than 5 characters
CommentTextsOf(comments) ==
    LET cleaned == [i \in 1..Len(comments) |-> clean_text(comments[i].text)]
    IN  SelectSeq(cleaned, LAMBDA t : t # <<>> /\ Len(t) > 5)

\* analyze_comments_with_ai with a failure of the collaborator returned as
\* if it had answered with an empty text
analyze_comments_with_ai_no_error(comments, ai) ==
    IF comments = <<>> THEN ErrorValue("no_comments")
    ELSE IF CommentTextsOf(comments) = <<>> THEN ErrorValue("no_valid_comments")
    ELSE [error |-> <<>>,
          analysis |-> IF ai.kind = "text" THEN <<ai.text>> ELSE <<>>,
          comment_count |-> <<Len(comments)>>,
          valid_comment_count |-> <<Len(CommentTextsOf(comments))>>]

\* XueqiuCommentAnalyzer.analyze_comments_with_ai.  The collaborator
\* (Generation.call) answers with status 200 and a text, or with another
\* status, or raises; the call is inside try/except Exception.
analyze_comments_with_ai(comments, ai) ==
    IF comments = <<>> THEN ErrorValue("no_comments")
    ELSE IF CommentTextsOf(comments) = <<>> THEN ErrorValue("no_valid_comments")
    ELSE IF ai.kind = "text"
    THEN [error |-> <<>>, analysis |-> <<ai.text>>,
          comment_count |-> <<Len(comments)>>,
          valid_comment_count |-> <<Len(CommentTextsOf(comments))>>]
    ELSE IF ai.kind = "status" THEN ErrorValue("ai_failed")
    ELSE ErrorValue("ai_exception")

\* " ".join(texts)
RECURSIVE JoinWithSpace(_)
JoinWithSpace(texts) ==
    IF texts = <<>> THEN <<>>
    ELSE IF Len(texts) = 1 THEN texts[1]
    ELSE texts[1] \o <<" ">> \o JoinWithSpace(Tail(texts))

\* re.findall(r'[0-9]{6}', text): the runs of six digits, from the left,
\* without overlap
RECURSIVE FindStockCodes(_)
FindStockCodes(text) ==
    IF Len(text) < 6 THEN <<>>
    ELSE IF \A i \in 1..6 : text[i] \in AsciiDigits
    THEN <<SubSeq(text, 1, 6)>> \o FindStockCodes(SubSeq(text, 7, Len(text)))
    ELSE FindStockCodes(Tail(text))

\* src/xueqiu_comment_analyzer.py:212-213
industry_words ==
    << <<"u79d1", "u6280">>, <<"u533b", "u836f">>,
       <<"u65b0", "u80fd", "u6e90">>, <<"u6d88", "u8d39">>,
       <<"u91d1", "u878d">>, <<"u5730", "u4ea7">>, <<"u82af", "u7247">>,
       <<"A", "I">>, <<"u4eba", "u5de5", "u667a", "u80fd">>,
       <<"u65b0", "u80fd", "u6e90", "u6c7d", "u8f66">>,
       <<"u5149", "u4f0f">>, <<"u98ce", "u7535">>, <<"u50a8", "u80fd">>,
       <<"u767d", "u9152">>, <<"u533b", "u836f">>, <<"u94f6", "u884c">>,
       <<"u4fdd", "u9669">> >>

\* extract_keywords: the first ten stock codes and the industry words found
\* in the joined cleaned texts of the comments that have a text, without
\* duplicates.  The order of list(set(...)) is not fixed by the code; the
\* result is modelled as the set, which the texts of the model keep below
\* the cut at twenty.
extract_keywords(comments) ==
    LET with_text == SelectSeq(comments, LAMBDA c : c.text # <<>>)
        all_text  == JoinWithSpace([i \in 1..Len(with_text) |->
                                       clean_text(with_text[i].text)])
    IN  Range(SliceTo(FindStockCodes(all_text), 10))
        \cup {industry_words[i] : i \in {j \in 1..Len(industry_words) :
                                           Contains(all_text, industry_words[j])}}

\* Counter(users).most_common(10): every user with the number of comments,
\* by that number descending, users of equal number in the order they first
\* occur
TopUsers(comments) ==
    LET users == [i \in 1..Len(comments) |-> comments[i].user]
        first(u) == CHOOSE i \in 1..Len(users) :
                        users[i] = u /\ \A j \in 1..(i - 1) : users[j] # u
        count(u) == Cardinality({i \in 1..Len(users) : users[i] = u})
        rank(u) == 1 + Cardinality({v \in Range(users) :
                          \/ count(v) > count(u)
                          \/ count(v) = count(u) /\ first(v) < first(u)})
        ordered == [r \in 1..Cardinality(Range(users)) |->
                       LET u == CHOOSE v \in Range(users) : rank(v) = r
                       IN  <<u, count(u)>>]
    IN  SliceTo(ordered, 10)

\* the comments run_analysis keeps: the cleaned text is longer than 3
\* characters; the cleaned text is stored on the comment
CleanedComments(all_comments) ==
    LET cleaned == [i \in 1..Len(all_comments) |->
                       [text |-> all_comments[i].text,
                        user |-> all_comments[i].user,
                        cleaned_text |-> clean_text(all_comments[i].text)]]
    IN  SelectSeq(cleaned, LAMBDA c : c.cleaned_text # <<>>
                                       /\ Len(c.cleaned_text) > 3)

\* the dict run_analysis returns when no topic was fetched
NoTopicsReport ==
    [error |-> <<"no_topics">>, total_topics |-> <<>>, total_comments |-> <<>>,
     valid_comments |-> <<>>, ai_analysis |-> <<>>, keywords |-> <<>>,
     top_users |-> <<>>, sample_comments |-> <<>>]

\* the comments get_comments returned for the first ten topics, in order
AllComments(topics) ==
    Concat([i \in 1..Len(SliceTo(topics, 10)) |-> topics[i].comments])

\* the report dict of run_analysis around the result of the AI analysis
AnalysisReport(topics, ai_analysis) ==
    LET cleaned_comments == CleanedComments(AllComments(topics))
    IN  [error |-> <<>>,
         total_topics |-> <<Len(topics)>>,
         total_comments |-> <<Len(AllComments(topics))>>,
         valid_comments |-> <<Len(cleaned_comments)>>,
         ai_analysis |-> <<ai_analysis>>,
         keywords |-> <<extract_keywords(cleaned_comments)>>,
         top_users |-> <<TopUsers(cleaned_comments)>>,
         sample_comments |-> <<SliceTo(cleaned_comments, 20)>>]

\* run_analysis that gives up when the AI analysis is an error value
run_analysis_needs_ai(topics, ai) ==
    LET ai_analysis == analyze_comments_with_ai(
                           CleanedComments(AllComments(topics)), ai)
    IN  IF topics = <<>> THEN NoTopicsReport
        ELSE IF ai_analysis.error # <<>>
        THEN [NoTopicsReport EXCEPT !.error = ai_analysis.error]
        ELSE AnalysisReport(topics, ai_analysis)

\* XueqiuCommentAnalyzer.run_analysis on the topics get_hot_topics returns,
\* each with the comments get_comments returns for it (none when that
\* request fails)
run_analysis(topics, ai) ==
    IF topics = <<>> THEN NoTopicsReport
    ELSE AnalysisReport(topics,
             analyze_comments_with_ai(CleanedComments(AllComments(topics)), ai))

----------------------------------------------------------------------------
(* The comment analysis on fetched topics with one answer of the collaborator *)

UserOne == <<"u", "1">>
UserTwo == <<"u", "2">>

\* comments: without text, with a text that cleaning shortens below both
\* thresholds, with one between the thresholds, with a stock code, with an
\* industry word
FetchedComments ==
    { [text |-> <<>>, user |-> UserOne],
      [text |-> <<"<", "b", ">", "a", "b">>, user |-> UserOne],
      [text |-> <<"a", "b", "c", "d">>, user |-> UserTwo],
      [text |-> <<"6", "0", "0", "5", "1", "9">>, user |-> UserTwo],
      [text |-> <<"u79d1", "u6280", "!", "a", "b", "c", "d">>, user |-> UserOne] }

\* no topic; one topic with up to MaxComments comments; a second topic
\* whose comments could not be fetched, or with one comment
FetchedTopics ==
    LET first == { [id |-> 1, comments |-> cs] :
                     cs \in UNION { [1..n -> FetchedComments] : n \in 0..MaxComments } }
        second == { [id |-> 2, comments |-> cs] :
                      cs \in { <<>>, << [text |-> <<"6", "0", "0", "5", "1", "9", "x">>,
                                         user |-> UserOne] >> } }
    IN  { <<>> } \cup { <<t>> : t \in first }
        \cup { <<t, u>> : t \in first, u \in second }

\* what Generation.call does: status 200 with a text, another status, an
\* exception
AiOutcomes ==
    { [kind |-> "text", text |-> <<"o", "k">>],
      [kind |-> "status", text |-> <<>>],
      [kind |-> "raises", text |-> <<>>] }

InitAnalysis ==
    /\ config = DefaultConfig
    /\ news_items = <<>>
    /\ op = "init"
    /\ \E topics \in FetchedTopics, ai \in AiOutcomes :
          arg = [topics |-> topics, ai |-> ai]
    /\ ret = <<>>
    /\ run = Constructed

\* analyze_comments_with_ai called on the comments of the first topic
AnalyzeCommentsWithAi ==
    /\ arg.topics # <<>>
    /\ op' = "analyze_comments_with_ai"
    /\ ret' = analyze_comments_with_ai(arg.topics[1].comments, arg.ai)
    /\ UNCHANGED <<config, news_items, arg, run>>

RunAnalysis ==
    /\ op' = "run_analysis"
    /\ ret' = run_analysis(arg.topics, arg.ai)
    /\ UNCHANGED <<config, news_items, arg, run>>

NextAnalysis == AnalyzeCommentsWithAi \/ RunAnalysis

SpecAnalysis == InitAnalysis /\ [][NextAnalysis]_vars

\* a dict is an analysis result or an error value
AnalysisOrError(result) ==
    \/ /\ result.error = <<>>
       /\ result.analysis # <<>>
       /\ result.comment_count # <<>>
       /\ result.valid_comment_count # <<>>
    \/ /\ result.error # <<>>
       /\ result.analysis = <<>>

\* C21: whatever the collaborator does (a text, a failure status, an
\* exception), analyze_comments_with_ai returns an analysis result or an
\* error value, and run_analysis on fetched topics returns the complete
\* report: the counts, the keywords, the top users and the sample comments.
C21_EnrichmentOptional ==
    /\ op = "analyze_comments_with_ai" => AnalysisOrError(ret)
    /\ (op = "run_analysis" /\ arg.topics # <<>>) =>
           /\ ret.error = <<>>
           /\ ret.total_topics = <<Len(arg.topics)>>
           /\ ret.total_comments # <<>>
           /\ ret.valid_comments # <<>>
           /\ ret.keywords # <<>>
           /\ ret.top_users # <<>>
           /\ ret.sample_comments # <<>>
           /\ ret.ai_analysis # <<>>
           /\ AnalysisOrError(ret.ai_analysis[1])
           /\ arg.ai.kind # "text" => ret.ai_analysis[1].error # <<>>

\* C21 witness: the collaborator raised on comments that are valid for it;
\* the report holds the error value, a keyword, two users and the samples.
C21_Witness ==
    /\ op = "run_analysis"
    /\ arg.ai.kind = "raises"
    /\ ret.error = <<>>
    /\ ret.ai_analysis[1].error = <<"ai_exception">>
    /\ ret.valid_comments = <<3>>
    /\ ret.keywords[1] # {}
    /\ Len(ret.top_users[1]) = 2
    /\ Len(ret.sample_comments[1]) = 3

====
